---- MODULE Spec2Model ----
(***************************************************************************)
(* A model of build123things: Things (entities) with captured parameters,  *)
(* memoized construction, the attribute guard, MountPoints, joints (Rigid, *)
(* Revolute) and the TransformResolver that chains transforms across       *)
(* joints.                                                                 *)
(*                                                                         *)
(* Objects live in heaps (sequences); an object's identity is its index,   *)
(* 0 stands for None.  Rigid transforms (bd.Location) are pairs of a 3x3   *)
(* rotation matrix and a translation vector; angles are degrees and the    *)
(* model uses multiples of 90, for which sine and cosine are integers.     *)
(***************************************************************************)
EXTENDS Integers, Sequences, FiniteSets, TLC

VARIABLES
    things,     \* heap of Thing instances: [cls, parameters, dict, done]
    registry,   \* Thing.list_of_all_existing_things (sequence of Thing ids)
    cache,      \* misc.MEMOIZATION_CACHE: function from signatures to values
    mounts,     \* heap of MountPoint instances
    joints,     \* heap of AbstractJoint instances
    stack,      \* the Python call stack above the module level (frames)
    tr,         \* the chain of TransformResolvers of the expression being evaluated
    last        \* outcome of the last operation: what was called and what it returned/raised

vars == <<things, registry, cache, mounts, joints, stack, tr, last>>

\* ------------------------------------------------------------------------
\* Bounds of the model
\* ------------------------------------------------------------------------
MaxJoints == 2
MaxChain == 2
\* How often one stored ReferenceTransformResolver is rebased at most
MaxRebase == 2

\* ------------------------------------------------------------------------
\* bd.Location: rigid transforms of the geometry kernel
\* ------------------------------------------------------------------------
Cos90(a) ==
    CASE a % 360 = 0 -> 1
      [] a % 360 = 90 -> 0
      [] a % 360 = 180 -> -1
      [] a % 360 = 270 -> 0

Sin90(a) ==
    CASE a % 360 = 0 -> 0
      [] a % 360 = 90 -> 1
      [] a % 360 = 180 -> 0
      [] a % 360 = 270 -> -1

RotX(a) == << <<1, 0, 0>>, <<0, Cos90(a), -Sin90(a)>>, <<0, Sin90(a), Cos90(a)>> >>
RotY(a) == << <<Cos90(a), 0, Sin90(a)>>, <<0, 1, 0>>, <<-Sin90(a), 0, Cos90(a)>> >>
RotZ(a) == << <<Cos90(a), -Sin90(a), 0>>, <<Sin90(a), Cos90(a), 0>>, <<0, 0, 1>> >>

MatEntry(A, B, i, j) == A[i][1] * B[1][j] + A[i][2] * B[2][j] + A[i][3] * B[3][j]

MatMul(A, B) ==
    << <<MatEntry(A, B, 1, 1), MatEntry(A, B, 1, 2), MatEntry(A, B, 1, 3)>>,
       <<MatEntry(A, B, 2, 1), MatEntry(A, B, 2, 2), MatEntry(A, B, 2, 3)>>,
       <<MatEntry(A, B, 3, 1), MatEntry(A, B, 3, 2), MatEntry(A, B, 3, 3)>> >>

MatVec(A, v) ==
    << A[1][1] * v[1] + A[1][2] * v[2] + A[1][3] * v[3],
       A[2][1] * v[1] + A[2][2] * v[2] + A[2][3] * v[3],
       A[3][1] * v[1] + A[3][2] * v[2] + A[3][3] * v[3] >>

Transpose(A) ==
    << <<A[1][1], A[2][1], A[3][1]>>,
       <<A[1][2], A[2][2], A[3][2]>>,
       <<A[1][3], A[2][3], A[3][3]>> >>

\* bd.Location(position, (rx, ry, rz)): intrinsic XYZ Euler angles in degrees
Location(pos, rot) ==
    [r |-> MatMul(MatMul(RotX(rot[1]), RotY(rot[2])), RotZ(rot[3])), t |-> pos]

\* bd.Location(): the identity
Identity == Location(<<0, 0, 0>>, <<0, 0, 0>>)

\* a * b on bd.Location: b is applied first, then a
Compose(a, b) ==
    LET rt == MatVec(a.r, b.t)
    IN [r |-> MatMul(a.r, b.r), t |-> <<rt[1] + a.t[1], rt[2] + a.t[2], rt[3] + a.t[3]>>]

\* bd.Location.inverse()
Inverse(a) ==
    LET rT == Transpose(a.r)
        v == MatVec(rT, a.t)
    IN [r |-> rT, t |-> <<-v[1], -v[2], -v[3]>>]

\* The mating convention: mated mounts face each other
MOUNTING_LOCATION == Location(<<0, 0, 0>>, <<180, 0, 90>>)

\* ------------------------------------------------------------------------
\* Values and outcomes
\* ------------------------------------------------------------------------
\* A Python value held in an attribute: its type and the identity of the object
Val(type, id) == [t |-> type, id |-> id]

\* The outcome of a call: exc = "" when it returned, else the exception raised
Returned(v) == [exc |-> "", val |-> v]
Raised(e, v) == [exc |-> e, val |-> v]

\* What the last operation was and how it ended
Outcome(op, res, id) ==
    [op |-> op, res |-> res, id |-> id, a |-> 0, b |-> 0, name |-> "", t |-> "",
     sig |-> <<>>, args |-> <<>>, kw |-> <<>>]

\* The same for an operation on object id with two further arguments
OutcomeAt(op, res, id, a, b) ==
    [op |-> op, res |-> res, id |-> id, a |-> a, b |-> b, name |-> "", t |-> "",
     sig |-> <<>>, args |-> <<>>, kw |-> <<>>]

\* The same for an attribute operation on object id: the name, and the value
\* as its type t and its identity a
OutcomeName(op, res, id, name, value) ==
    [op |-> op, res |-> res, id |-> id, a |-> value.id, b |-> 0, name |-> name,
     t |-> value.t, sig |-> <<>>, args |-> <<>>, kw |-> <<>>]

\* The same for a memoized call with a signature
OutcomeSig(op, res, id, sig) ==
    [op |-> op, res |-> res, id |-> id, a |-> 0, b |-> 0, name |-> "", t |-> "",
     sig |-> sig, args |-> <<>>, kw |-> <<>>]

\* d[k] for a dict kept as a sequence of [k, v] items in insertion order
DictHas(d, k) == \E i \in 1..Len(d) : d[i].k = k
DictGet(d, k) == d[CHOOSE i \in 1..Len(d) : d[i].k = k].v

\* ------------------------------------------------------------------------
\* MountPoint
\* ------------------------------------------------------------------------
\* MountPoint.__init__(location, owner, known_as); owner 0 and known_as "" are None
NewMountPoint(location, owner, known_as) ==
    [owner |-> owner, known_as |-> known_as, location |-> location,
     joint_outbound |-> 0, joints_inbound |-> <<>>]

\* MountPoint.owned
Owned(m) == m.owner # 0 /\ m.known_as # ""

\* ------------------------------------------------------------------------
\* Joints: AbstractJoint, Rigid, Revolute
\* ------------------------------------------------------------------------
\* InLimits with the bounds excluded
InLimitsExclusive(limit_angle, alpha) ==
    limit_angle = <<>> \/ (limit_angle[1] < alpha /\ alpha < limit_angle[2])

\* Revolute.set's check of alpha against limit_angle (<<>> is None)
InLimits(limit_angle, alpha) ==
    limit_angle = <<>> \/ (limit_angle[1] <= alpha /\ alpha <= limit_angle[2])

\* The joint object as AbstractJoint.__init__ leaves it before set_default().
\* param_kwargs is __param_kwargs__["alpha"] as a 1-tuple, <<>> while it is not set.
\* Three fields are history, not attributes: peers (the mounts_are_peers the
\* joint was built with), constructed (its constructor returned) and last_ok
\* (the arguments of the last set that returned).
NewJointObject(kind, reference_mount, moving_mount, mounts_are_peers, limit_angle) ==
    [kind |-> kind, reference_mount |-> reference_mount, moving_mount |-> moving_mount,
     limit_angle |-> limit_angle, param_kwargs |-> <<>>,
     peers |-> mounts_are_peers, constructed |-> FALSE, last_ok |-> <<>>]

\* JointSanity without the comparison of the two owners
JointSanityOwnersOnly(ms, reference_mount, moving_mount) ==
    /\ ms[moving_mount].owner # 0
    /\ ms[reference_mount].owner # 0

\* The sanity check of AbstractJoint.__init__: both owner getters assert an owner,
\* then the owners must differ
JointSanity(ms, reference_mount, moving_mount) ==
    /\ ms[moving_mount].owner # 0
    /\ ms[reference_mount].owner # 0
    /\ ms[moving_mount].owner # ms[reference_mount].owner

\* InjectMounts putting a new inbound joint in front of the list
InjectMountsInFront(ms, j, reference_mount, moving_mount, mounts_are_peers) ==
    LET ms1 == [ms EXCEPT ![reference_mount].joint_outbound = j]
    IN IF mounts_are_peers
       THEN [ms1 EXCEPT ![moving_mount].joint_outbound = j]
       ELSE [ms1 EXCEPT ![moving_mount].joints_inbound = <<j>> \o @]

\* "Inject the mounts": the registration of joint j in the two mounts
InjectMounts(ms, j, reference_mount, moving_mount, mounts_are_peers) ==
    LET ms1 == [ms EXCEPT ![reference_mount].joint_outbound = j]
    IN IF mounts_are_peers
       THEN [ms1 EXCEPT ![moving_mount].joint_outbound = j]
       ELSE [ms1 EXCEPT ![moving_mount].joints_inbound = Append(@, j)]

\* SetJoint storing the parameter before it is validated
SetJointStoreFirst(jt, args) ==
    IF jt.kind = "Rigid"
    THEN IF Len(args) = 0 THEN Returned(jt) ELSE Raised("TypeError", jt)
    ELSE IF Len(args) # 1 THEN Raised("TypeError", jt)
         ELSE LET stored == [jt EXCEPT !.param_kwargs = <<args[1]>>]
              IN IF ~InLimits(jt.limit_angle, args[1]) THEN Raised("AssertionError", stored)
                 ELSE Returned(stored)

\* set(*args) on a joint object: the outcome and the joint afterwards.
\* Rigid.set takes no argument and stores nothing; Revolute.set takes alpha.
SetJoint(jt, args) ==
    IF jt.kind = "Rigid"
    THEN IF Len(args) = 0 THEN Returned(jt) ELSE Raised("TypeError", jt)
    ELSE IF Len(args) # 1 THEN Raised("TypeError", jt)
         ELSE IF ~InLimits(jt.limit_angle, args[1]) THEN Raised("AssertionError", jt)
              ELSE Returned([jt EXCEPT !.param_kwargs = <<args[1]>>])

\* set_default(): Rigid does nothing, Revolute sets alpha = 0
SetDefault(jt) == IF jt.kind = "Rigid" THEN Returned(jt) ELSE SetJoint(jt, <<0>>)

\* JointTransform returning the same rotation in both directions
JointTransformSameBothWays(jt, mount_from, mount_to) ==
    IF jt.kind = "Rigid"
    THEN Returned(Identity)
    ELSE IF jt.param_kwargs = <<>>
         THEN Raised("AttributeError", Identity)
         ELSE LET t == Location(<<0, 0, 0>>, <<0, 0, jt.param_kwargs[1]>>)
              IN IF mount_from = jt.reference_mount /\ mount_to = jt.moving_mount
                 THEN Returned(t)
                 ELSE IF mount_from = jt.moving_mount /\ mount_to = jt.reference_mount
                      THEN Returned(t)
                      ELSE Raised("ValueError", Identity)

\* JointTransform at the default parameter alpha = 0 whatever was set
JointTransformAtDefault(jt, mount_from, mount_to) ==
    IF jt.kind = "Rigid"
    THEN Returned(Identity)
    ELSE IF jt.param_kwargs = <<>>
         THEN Raised("AttributeError", Identity)
         ELSE IF {mount_from, mount_to} = {jt.reference_mount, jt.moving_mount}
                 /\ mount_from # mount_to
              THEN Returned(Identity)
              ELSE Raised("ValueError", Identity)

\* Rigid.transform and Revolute.transform
JointTransform(jt, mount_from, mount_to) ==
    IF jt.kind = "Rigid"
    THEN Returned(Identity)
    ELSE IF jt.param_kwargs = <<>>
         THEN Raised("AttributeError", Identity)
         ELSE LET t == Location(<<0, 0, 0>>, <<0, 0, jt.param_kwargs[1]>>)
              IN IF mount_from = jt.reference_mount /\ mount_to = jt.moving_mount
                 THEN Returned(t)
                 ELSE IF mount_from = jt.moving_mount /\ mount_to = jt.reference_mount
                      THEN Returned(Inverse(t))
                      ELSE Raised("ValueError", Identity)

\* AbstractJoint.get_other_mount
GetOtherMount(jt, ref) ==
    IF ref = jt.reference_mount THEN Returned(jt.moving_mount)
    ELSE IF ref = jt.moving_mount THEN Returned(jt.reference_mount)
         ELSE Raised("ValueError", 0)

\* ------------------------------------------------------------------------
\* TransformResolver
\* ------------------------------------------------------------------------
\* SelectJoint with an index past the end of the list taken as the last entry
SelectJointClamped(m, which) ==
    IF which = <<>> THEN m.joint_outbound
    ELSE LET n == Len(m.joints_inbound)
             i == which[1]
         IN IF 0 <= i /\ i < n THEN m.joints_inbound[i + 1]
            ELSE IF -n <= i /\ i < 0 THEN m.joints_inbound[n + i + 1]
                 ELSE IF n > 0 THEN m.joints_inbound[n] ELSE 0

\* The joint TransformResolver.__init__ selects: which = <<>> is None (the
\* outbound joint), which = <<i>> the i-th inbound joint (a Python list index,
\* negative ones count from the end); 0 when there is none
SelectJoint(m, which) ==
    IF which = <<>> THEN m.joint_outbound
    ELSE LET n == Len(m.joints_inbound)
             i == which[1]
         IN IF 0 <= i /\ i < n THEN m.joints_inbound[i + 1]
            ELSE IF -n <= i /\ i < 0 THEN m.joints_inbound[n + i + 1]
                 ELSE 0

\* full_transform of TransformResolver.__init__
FullTransform(location, joint_transform, next_location) ==
    Compose(Compose(Compose(location, joint_transform), MOUNTING_LOCATION),
            Inverse(next_location))

\* TransformResolver.__init__(mount_point, which)
NewResolver(ms, js, mount_point, which) ==
    LET j == SelectJoint(ms[mount_point], which)
        terminal == [transform |-> Identity, orig_mount |-> mount_point, next_mount |-> 0,
                     joint |-> 0, wrapped |-> 0, joint_transform |-> Identity,
                     previous |-> <<>>]
    IN IF j = 0 THEN Returned(terminal)
       ELSE LET nxt == GetOtherMount(js[j], mount_point)
            IN IF nxt.exc # "" THEN Raised(nxt.exc, terminal)
               ELSE LET jtr == JointTransform(js[j], mount_point, nxt.val)
                    IN IF jtr.exc # "" THEN Raised(jtr.exc, terminal)
                       ELSE IF ms[nxt.val].owner = 0 THEN Raised("AssertionError", terminal)
                            ELSE Returned(
                                [transform |-> FullTransform(ms[mount_point].location, jtr.val,
                                                             ms[nxt.val].location),
                                 orig_mount |-> mount_point, next_mount |-> nxt.val,
                                 joint |-> j, wrapped |-> ms[nxt.val].owner,
                                 joint_transform |-> jtr.val, previous |-> <<>>])

\* Rebase composing in the opposite order
RebaseReversed(self, v) ==
    [v EXCEPT !.transform = Compose(v.transform, self.transform), !.previous = <<self>>]

\* The rebasing of TransformResolver.__getattr__: a resolver v obtained from the
\* wrapped Thing is chained behind resolver self
\* (v._transform = self.transform * v.transform; v._previous = self); the
\* link previous is <<>> for None and <<self>> for self
Rebase(self, v) ==
    [v EXCEPT !.transform = Compose(self.transform, v.transform), !.previous = <<self>>]

\* ReferenceTransformResolver(thing, where) as the value of an attribute of a
\* Thing: the object is kept where it is stored, with its _wrapped (id), its
\* _transform and its _previous.  rebased is history: how often a resolver
\* has rebased this object since it was built.
NewReference(thing, where) ==
    [t |-> "ReferenceTransformResolver", id |-> thing, transform |-> where,
     previous |-> <<>>, rebased |-> 0]

\* The stored ReferenceTransformResolver things[e].name seen as a resolver: it
\* has no mount and no joint, and slot tells which stored object it is
RefResolver(e, name, value) ==
    [transform |-> value.transform, orig_mount |-> 0, next_mount |-> 0, joint |-> 0,
     wrapped |-> value.id, joint_transform |-> Identity, previous |-> value.previous,
     slot |-> <<e, name>>]

IsReference(v) == v.orig_mount = 0

\* The stored object after a resolver wrote the _transform and the _previous
\* of v into it
Stored(value, v) ==
    [value EXCEPT !.transform = v.transform, !.previous = v.previous, !.rebased = @ + 1]

\* things after the resolvers of yielded (pairs [label, v]) that are stored
\* attributes of Thing e were written back to where they are stored
StoreReferences(ths, e, yielded) ==
    [ths EXCEPT ![e].dict =
        [i \in 1..Len(@) |->
            IF \E n \in 1..Len(yielded) :
                  IsReference(yielded[n].v) /\ yielded[n].v.slot = <<e, @[i].k>>
            THEN LET n == CHOOSE n \in 1..Len(yielded) :
                              IsReference(yielded[n].v) /\ yielded[n].v.slot = <<e, @[i].k>>
                 IN [k |-> @[i].k, v |-> Stored(@[i].v, yielded[n].v)]
            ELSE @[i]]]

\* The chain after the same write: a resolver of the chain that is one of the
\* stored objects is that object
AliasReferences(chain, yielded) ==
    [i \in 1..Len(chain) |->
        IF IsReference(chain[i]) /\ \E n \in 1..Len(yielded) :
              IsReference(yielded[n].v) /\ yielded[n].v.slot = chain[i].slot
        THEN yielded[CHOOSE n \in 1..Len(yielded) :
                        IsReference(yielded[n].v) /\ yielded[n].v.slot = chain[i].slot].v
        ELSE chain[i]]

\* What Thing.enumerate_assembly is to yield for one item of __dict__: the
\* label (<<name>>, or <<name, i>> for "name:i") and the resolver to build,
\* mount 0 for a stored ReferenceTransformResolver
EnumerateItem(ms, item, subassembly, where_attached, reference) ==
    IF item.v.t = "MountPoint"
    THEN (IF subassembly /\ ms[item.v.id].joint_outbound # 0
          THEN << [label |-> <<item.k>>, mount |-> item.v.id, which |-> <<>>] >>
          ELSE <<>>)
         \o (IF where_attached
             THEN [i \in 1..Len(ms[item.v.id].joints_inbound) |->
                      [label |-> <<item.k, i - 1>>, mount |-> item.v.id, which |-> <<i - 1>>]]
             ELSE <<>>)
    ELSE IF item.v.t = "ReferenceTransformResolver" /\ reference
         THEN << [label |-> <<item.k>>, mount |-> 0, which |-> <<>>] >>
         ELSE <<>>

\* The same for the items of __dict__ from the n-th on, in the order of the dict
RECURSIVE EnumerateItems(_, _, _, _, _, _)
EnumerateItems(ms, dict, n, subassembly, where_attached, reference) ==
    IF n > Len(dict) THEN <<>>
    ELSE EnumerateItem(ms, dict[n], subassembly, where_attached, reference)
         \o EnumerateItems(ms, dict, n + 1, subassembly, where_attached, reference)

\* The pairs [label, v] the generator yields from its n-th on, and the
\* exception that ends it when a TransformResolver cannot be built
RECURSIVE Yield(_, _, _, _, _, _)
Yield(ths, ms, js, e, items, n) ==
    IF n > Len(items) THEN Returned(<<>>)
    ELSE LET q == items[n]
             r == IF q.mount = 0
                  THEN Returned(RefResolver(e, q.label[1], DictGet(ths[e].dict, q.label[1])))
                  ELSE NewResolver(ms, js, q.mount, q.which)
         IN IF r.exc # "" THEN Raised(r.exc, <<>>)
            ELSE LET rest == Yield(ths, ms, js, e, items, n + 1)
                 IN [exc |-> rest.exc,
                     val |-> << [label |-> q.label, v |-> r.val] >> \o rest.val]

\* The pairs of Thing e and, to the given depth, of the Things its pairs wrap
RECURSIVE Descend(_, _, _, _, _, _, _, _)
Descend(ths, ms, js, e, subassembly, where_attached, reference, depth) ==
    LET y == Yield(ths, ms, js, e,
                   EnumerateItems(ms, ths[e].dict, 1, subassembly, where_attached, reference), 1)
        RECURSIVE Below(_)
        Below(n) ==
            IF n > Len(y.val) THEN <<>>
            ELSE << y.val[n] >>
                 \o (IF depth > 0 /\ y.val[n].v.wrapped # 0
                     THEN LET d == Descend(ths, ms, js, y.val[n].v.wrapped,
                                       subassembly, where_attached, reference, depth - 1).val
                          IN [i \in 1..Len(d) |->
                                 [d[i] EXCEPT !.v = Rebase(y.val[n].v, d[i].v)]]
                     ELSE <<>>)
                 \o Below(n + 1)
    IN [exc |-> y.exc, val |-> Below(1)]

\* EnumerateAssembly descending below every child it yields
EnumerateAssemblyDeep(ths, ms, js, e, subassembly, where_attached, reference) ==
    Descend(ths, ms, js, e, subassembly, where_attached, reference, 2)

\* list(things[e].enumerate_assembly(subassembly, where_attached, reference)):
\* one pass over __dict__, no descent
EnumerateAssembly(ths, ms, js, e, subassembly, where_attached, reference) ==
    Yield(ths, ms, js, e,
          EnumerateItems(ms, ths[e].dict, 1, subassembly, where_attached, reference), 1)

\* ------------------------------------------------------------------------
\* Memoization (misc.memoize) and ThingMeta.__call__
\* ------------------------------------------------------------------------
\* Texts are sequences of tokens.  str(args) of the tuple (cls, a1, ..., an):
\* "(<class 'C'>, a1, ..., an)", and "(<class 'C'>,)" for the 1-tuple
RECURSIVE StrItems(_)
StrItems(args) ==
    IF Len(args) = 0 THEN <<>>
    ELSE <<", ", ToString(Head(args))>> \o StrItems(Tail(args))

StrArgs(cls, args) ==
    <<"(", "<class '", cls, "'>">>
        \o (IF Len(args) = 0 THEN <<",">> ELSE StrItems(args)) \o <<")">>

\* The parameters of the script's classes whose values are Python lists; the
\* values of all other parameters are whole numbers.  A list is an object:
\* [t |-> "list", id |-> its identity, items |-> its items]
ListParams == {"teeth"}

List(id, items) == [t |-> "list", id |-> id, items |-> items]

\* repr(value) of the value of keyword k: the text of a list shows its items,
\* not its identity
Repr(k, value) == IF k \in ListParams THEN ToString(value.items) ELSE ToString(value)

\* str(kwargs) of the dict {k1: v1, ...} in the order the keywords were written
RECURSIVE StrPairs(_)
StrPairs(kwargs) ==
    IF Len(kwargs) = 0 THEN <<>>
    ELSE <<"'", Head(kwargs).k, "'", ": ", Repr(Head(kwargs).k, Head(kwargs).v)>>
            \o (IF Len(kwargs) = 1 THEN <<>> ELSE <<", ">>) \o StrPairs(Tail(kwargs))

StrKwargs(kwargs) == <<"{">> \o StrPairs(kwargs) \o <<"}">>

\* signature = str(args) + str(kwargs) in memoized, for ThingMeta.__call__(cls, *args, **kwargs)
Signature(cls, args, kwargs) == StrArgs(cls, args) \o StrKwargs(kwargs)

\* MEMOIZATION_CACHE[signature] = value
CachePut(c, signature, value) ==
    [s \in DOMAIN c \cup {signature} |-> IF s = signature THEN value ELSE c[s]]

\* ------------------------------------------------------------------------
\* The assembly scene: three Things built by a script, and a loose MountPoint
\* ------------------------------------------------------------------------
\* The script's class:
\*   class Part(Thing):
\*       def __init__(self, x=0, tilt=0):
\*           super().__init__(material=Steel())
\*           self.m = MountPoint(bd.Location((x, 0, 0), (tilt, 0, 0)))
\* and its top level:  Part(10, 90); Part(20, 0); Part(x=30, tilt=90);
\*                     loose = MountPoint(bd.Location((0, 0, 5)))
\* Thing e owns MountPoints 2e-1 (origin) and 2e (m); the loose one is 7.
SceneThing(e, x, tilt) ==
    [cls |-> "Part",
     parameters |-> << [cls |-> "Part",
                        args |-> << [k |-> "self", v |-> e], [k |-> "x", v |-> x],
                                    [k |-> "tilt", v |-> tilt] >>] >>,
     dict |-> << [k |-> "__parameters__", v |-> Val("list", e)],
                 [k |-> "p", v |-> Val("ParameterResolver", e)],
                 [k |-> "__material__", v |-> Val("Material", e)],
                 [k |-> "origin", v |-> Val("MountPoint", 2 * e - 1)],
                 [k |-> "m", v |-> Val("MountPoint", 2 * e)] >>,
     done |-> TRUE]

SceneThings == << SceneThing(1, 10, 90), SceneThing(2, 20, 0), SceneThing(3, 30, 90) >>

SceneMounts ==
    << NewMountPoint(Identity, 1, "origin"),
       NewMountPoint(Location(<<10, 0, 0>>, <<90, 0, 0>>), 1, "m"),
       NewMountPoint(Identity, 2, "origin"),
       NewMountPoint(Location(<<20, 0, 0>>, <<0, 0, 0>>), 2, "m"),
       NewMountPoint(Identity, 3, "origin"),
       NewMountPoint(Location(<<30, 0, 0>>, <<90, 0, 0>>), 3, "m"),
       NewMountPoint(Location(<<0, 0, 5>>, <<0, 0, 0>>), 0, "") >>

SceneCache ==
    CachePut(CachePut(CachePut(<<>>,
        Signature("Part", <<10, 90>>, <<>>), 1),
        Signature("Part", <<20, 0>>, <<>>), 2),
        Signature("Part", <<>>, << [k |-> "x", v |-> 30], [k |-> "tilt", v |-> 90] >>), 3)

\* The inputs of the operations in the scene.  The pairs (reference mount,
\* moving mount) that can be joined form a ring A.m -> B.m -> C.m -> A.m; the
\* other pairs have one owner, the same mount twice, or the loose mount.
JointKinds == {"Rigid", "Revolute"}
JointPairs == {<<2, 4>>, <<4, 6>>, <<6, 2>>, <<1, 2>>, <<2, 2>>, <<2, 7>>, <<7, 4>>}
Angles == {0, 90}
TransformPairs == {<<2, 4>>, <<4, 2>>, <<4, 6>>, <<6, 4>>, <<2, 2>>, <<2, 7>>}
WalkNames == {"origin", "m"}

\* The inputs of the specification of the Revolute joint's parameter
RevolutePairs == {<<2, 4>>, <<4, 6>>, <<6, 2>>}
RevoluteLimits == {<<>>, <<0, 90>>, <<90, 180>>}
RevoluteAngles == {-90, 0, 90, 180}

Init ==
    /\ things = SceneThings
    /\ registry = <<1, 2, 3>>
    /\ cache = SceneCache
    /\ mounts = SceneMounts
    /\ joints = <<>>
    /\ stack = <<>>
    /\ tr = <<>>
    /\ last = Outcome("", "", 0)

\* The scene with a bracket in the middle, as a script leaves it after
\*     a = Part(10, 90); b = Bracket(20); c = Part(x=30, tilt=90)
\* where the constructor of Bracket(x) makes its mount m at x and stores
\*     self.ref = ReferenceTransformResolver(Part(10, 90), Location((0, 0, 5)))
\* The Part that ref wraps is Thing 1: the memoized constructor returns a.
SceneBracket(e, x, wrapped) ==
    [cls |-> "Bracket",
     parameters |-> << [cls |-> "Bracket",
                        args |-> << [k |-> "self", v |-> e], [k |-> "x", v |-> x] >>] >>,
     dict |-> << [k |-> "__parameters__", v |-> Val("list", e)],
                 [k |-> "p", v |-> Val("ParameterResolver", e)],
                 [k |-> "__material__", v |-> Val("Material", e)],
                 [k |-> "origin", v |-> Val("MountPoint", 2 * e - 1)],
                 [k |-> "m", v |-> Val("MountPoint", 2 * e)],
                 [k |-> "ref",
                  v |-> NewReference(wrapped, Location(<<0, 0, 5>>, <<0, 0, 0>>))] >>,
     done |-> TRUE]

InitRef ==
    /\ things = << SceneThing(1, 10, 90), SceneBracket(2, 20, 1), SceneThing(3, 30, 90) >>
    /\ registry = <<1, 2, 3>>
    /\ cache = CachePut(CachePut(CachePut(<<>>,
                   Signature("Part", <<10, 90>>, <<>>), 1),
                   Signature("Bracket", <<20>>, <<>>), 2),
                   Signature("Part", <<>>, << [k |-> "x", v |-> 30], [k |-> "tilt", v |-> 90] >>), 3)
    /\ mounts = SceneMounts
    /\ joints = <<>>
    /\ stack = <<>>
    /\ tr = <<>>
    /\ last = Outcome("", "", 0)

\* The joints of the bracket scene: a.m -> b.m, b.m -> c.m and b.origin -> c.m;
\* the names read, and the flags of enumerate_assembly (subassembly,
\* where_attached, reference)
EnumPairs == {<<2, 4>>, <<4, 6>>, <<3, 6>>}
EnumNames == {"m", "ref"}
EnumFlags == {<<TRUE, FALSE, FALSE>>, <<TRUE, TRUE, FALSE>>, <<FALSE, FALSE, TRUE>>}

\* ------------------------------------------------------------------------
\* Operations on joints
\* ------------------------------------------------------------------------
\* kind(reference_mount, moving_mount, peers, limit_angle=...): Revolute.__init__ /
\* Rigid.__init__, then AbstractJoint.__init__ with its sanity check, the
\* registration in the mounts and set_default().  The outcome, and the heaps of
\* mounts and joints afterwards; a joint object that was never registered is
\* garbage and is not kept.
JointInit(ms, js, kind, reference_mount, moving_mount, mounts_are_peers, limit_angle) ==
    IF ~JointSanity(ms, reference_mount, moving_mount)
    THEN [exc |-> "AssertionError", id |-> 0, mounts |-> ms, joints |-> js]
    ELSE LET j == Len(js) + 1
             obj == NewJointObject(kind, reference_mount, moving_mount,
                                   mounts_are_peers, limit_angle)
             dflt == SetDefault(obj)
         IN [exc |-> dflt.exc, id |-> j,
             mounts |-> InjectMounts(ms, j, reference_mount, moving_mount, mounts_are_peers),
             joints |-> Append(js, [dflt.val EXCEPT !.constructed = (dflt.exc = ""),
                                                    !.last_ok = dflt.val.param_kwargs])]

NewJoint(kind, reference_mount, moving_mount, mounts_are_peers, limit_angle) ==
    /\ Len(joints) < MaxJoints
    /\ kind = "Rigid" => limit_angle = <<>>
    /\ LET r == JointInit(mounts, joints, kind, reference_mount, moving_mount,
                          mounts_are_peers, limit_angle)
       IN /\ mounts' = r.mounts
          /\ joints' = r.joints
          /\ last' = OutcomeAt("NewJoint", r.exc, r.id, reference_mount, moving_mount)
    /\ tr' = <<>>
    /\ UNCHANGED <<things, registry, cache, stack>>

\* joints[j].set(*args); the joint's last_ok remembers the arguments of the last
\* set that returned
JointSet(j, args) ==
    /\ j \in 1..Len(joints)
    /\ LET r == SetJoint(joints[j], args)
       IN /\ joints' = [joints EXCEPT ![j] =
                            [r.val EXCEPT !.last_ok = IF r.exc = "" THEN args ELSE @]]
          /\ last' = OutcomeAt("set", r.exc, j, Len(args), IF Len(args) = 1 THEN args[1] ELSE 0)
    /\ tr' = <<>>
    /\ UNCHANGED <<things, registry, cache, mounts, stack>>

\* joints[j].transform(mount_from, mount_to)
CallTransform(j, mount_from, mount_to) ==
    /\ j \in 1..Len(joints)
    /\ last' = OutcomeAt("transform", JointTransform(joints[j], mount_from, mount_to).exc,
                         j, mount_from, mount_to)
    /\ tr' = <<>>
    /\ UNCHANGED <<things, registry, cache, mounts, joints, stack>>

\* ------------------------------------------------------------------------
\* Walking the assembly by attribute access
\* ------------------------------------------------------------------------
\* things[e].name read by the script: Thing.__getattribute__ hands a MountPoint
\* out as a fresh TransformResolver, the first of a new chain
ThingGetAttr(e, name) ==
    /\ e \in 1..Len(things)
    /\ DictHas(things[e].dict, name)
    /\ DictGet(things[e].dict, name).t \in {"MountPoint", "ReferenceTransformResolver"}
    /\ LET value == DictGet(things[e].dict, name)
           r == IF value.t = "MountPoint"
                THEN NewResolver(mounts, joints, value.id, <<>>)
                ELSE Returned(RefResolver(e, name, value))
       IN /\ tr' = IF r.exc = "" THEN <<r.val>> ELSE <<>>
          /\ last' = Outcome("getattr", r.exc, e)
    /\ UNCHANGED <<things, registry, cache, mounts, joints, stack>>

\* resolver.name on the last resolver of the chain: TransformResolver.__getattr__
\* forwards to the wrapped Thing and rebases the resolver it gets
ResolverGetAttr(name) ==
    /\ tr # <<>>
    /\ Len(tr) < MaxChain
    /\ LET self == tr[Len(tr)]
       IN IF self.wrapped = 0
          THEN /\ last' = Outcome("forward", "AssertionError", 0)
               /\ tr' = tr
               /\ things' = things
          ELSE /\ DictHas(things[self.wrapped].dict, name)
               /\ LET value == DictGet(things[self.wrapped].dict, name)
                  IN IF value.t = "ReferenceTransformResolver"
                     THEN \* the stored resolver itself is rebased and returned
                          LET v == Rebase(self, RefResolver(self.wrapped, name, value))
                              yielded == << [label |-> <<name>>, v |-> v] >>
                          IN /\ value.rebased < MaxRebase
                             /\ things' = StoreReferences(things, self.wrapped, yielded)
                             /\ tr' = Append(AliasReferences(tr, yielded), v)
                             /\ last' = Outcome("forward", "", self.wrapped)
                     ELSE /\ value.t = "MountPoint"
                          /\ LET r == NewResolver(mounts, joints, value.id, <<>>)
                             IN /\ tr' = IF r.exc = "" THEN Append(tr, Rebase(self, r.val))
                                                       ELSE tr
                                /\ last' = Outcome("forward", r.exc, self.wrapped)
                          /\ things' = things
    /\ UNCHANGED <<registry, cache, mounts, joints, stack>>

\* list(resolver.enumerate_assembly(subassembly, where_attached, reference)) on
\* the last resolver of the chain: every resolver the wrapped Thing yields is
\* rebased, the stored ones where they are stored.  The outcome keeps the
\* pairs yielded (args) and the flags (kw).
ResolverEnumerate(subassembly, where_attached, reference) ==
    /\ tr # <<>>
    /\ LET self == tr[Len(tr)]
           flags == <<subassembly, where_attached, reference>>
       IN IF self.wrapped = 0
          THEN /\ last' = [OutcomeAt("enumerate", "AssertionError", 0, Len(tr), 0)
                              EXCEPT !.kw = flags]
               /\ UNCHANGED <<things, tr>>
          ELSE LET y == EnumerateAssembly(things, mounts, joints, self.wrapped,
                                          subassembly, where_attached, reference)
                   yielded == [n \in 1..Len(y.val) |->
                                  [y.val[n] EXCEPT !.v = Rebase(self, y.val[n].v)]]
               IN /\ \A n \in 1..Len(y.val) :
                        IsReference(y.val[n].v) =>
                            DictGet(things[self.wrapped].dict, y.val[n].label[1]).rebased
                                < MaxRebase
                  /\ things' = StoreReferences(things, self.wrapped, yielded)
                  /\ tr' = AliasReferences(tr, yielded)
                  /\ last' = [OutcomeAt("enumerate", y.exc, self.wrapped, Len(tr), 0)
                                 EXCEPT !.args = yielded, !.kw = flags]
    /\ UNCHANGED <<registry, cache, mounts, joints, stack>>

\* list(things[e].enumerate_assembly(subassembly, where_attached, reference))
\* called by the script on the Thing itself
ThingEnumerate(e, subassembly, where_attached, reference) ==
    /\ e \in 1..Len(things)
    /\ LET y == EnumerateAssembly(things, mounts, joints, e,
                                  subassembly, where_attached, reference)
       IN last' = [OutcomeAt("enumerate_thing", y.exc, e, 0, 0)
                      EXCEPT !.args = y.val, !.kw = <<subassembly, where_attached, reference>>]
    /\ UNCHANGED <<things, registry, cache, mounts, joints, stack, tr>>

\* TransformResolver(mount_point, which) evaluated by the script, the first
\* resolver of a new chain
MakeResolver(mount_point, which) ==
    /\ mount_point \in 1..Len(mounts)
    /\ LET r == NewResolver(mounts, joints, mount_point, which)
       IN /\ tr' = IF r.exc = "" THEN <<r.val>> ELSE <<>>
          /\ last' = [OutcomeAt("resolver", r.exc, 0, mount_point, 0) EXCEPT !.args = which]
    /\ UNCHANGED <<things, registry, cache, mounts, joints, stack>>

\* resolver.wrapped on the last resolver of the chain: the property asserts
\* that there is a wrapped Thing
ResolverWrapped ==
    /\ tr # <<>>
    /\ LET self == tr[Len(tr)]
       IN last' = OutcomeAt("wrapped", IF self.wrapped = 0 THEN "AssertionError" ELSE "",
                            self.wrapped, Len(tr), 0)
    /\ UNCHANGED <<things, registry, cache, mounts, joints, stack, tr>>

\* Reading the bracket scene through resolvers
NextEnum ==
    \/ \E pair \in EnumPairs : NewJoint("Revolute", pair[1], pair[2], FALSE, <<>>)
    \/ \E e \in 1..2, name \in EnumNames : ThingGetAttr(e, name)
    \/ \E name \in EnumNames : ResolverGetAttr(name)
    \/ \E f \in EnumFlags : ResolverEnumerate(f[1], f[2], f[3])

SpecEnum == InitRef /\ [][NextEnum]_vars

\* Resolvers built after the parameter of a joint was set
SetPairs == {<<2, 4>>, <<4, 6>>}
SetLimits == {<<>>, <<0, 90>>}
SetAngles == {90, 180}

NextSet ==
    \/ \E pair \in SetPairs, limit_angle \in SetLimits :
          NewJoint("Revolute", pair[1], pair[2], FALSE, limit_angle)
    \/ \E j \in 1..MaxJoints, a \in SetAngles : JointSet(j, <<a>>)
    \/ \E e \in 1..3 : ThingGetAttr(e, "m")
    \/ ResolverGetAttr("m")
    \/ ResolverEnumerate(TRUE, TRUE, FALSE)
    \/ \E e \in 1..3 : ThingEnumerate(e, TRUE, TRUE, FALSE)

SpecSet == Init /\ [][NextSet]_vars

\* ------------------------------------------------------------------------
\* The exporters' walk of the assembly
\* ------------------------------------------------------------------------
\* The depth of recursion at which Python raises RecursionError, scaled to the
\* scene: deeper than the walk of any acyclic assembly of its three Things
RecursionLimit == 4

\* process(things[e]) called by the script: the first frame of the walk.  A
\* frame keeps the Thing visited (self) and which pair of its
\* enumerate_assembly() the loop takes next (pos).
Process(e) ==
    /\ stack = <<>>
    /\ e \in 1..Len(things)
    /\ stack' = << [fn |-> "process", self |-> e, sig |-> <<>>, pos |-> 1] >>
    /\ last' = OutcomeAt("process", "", e, 1, 0)
    /\ UNCHANGED <<things, registry, cache, mounts, joints, tr>>

\* One step of the innermost frame of the walk,
\*     for _, v in t.enumerate_assembly(): process(v.wrapped)
\* the loop calls process on the Thing of its next pair, or it has no further
\* pair and the frame returns; an exception (of the generator, or the
\* RecursionError of a call at the limit) ends the whole walk.  The outcome is
\* "walked" with the exception, "" when the walk has returned, and "process"
\* while it goes on.
ProcessStep ==
    /\ stack # <<>>
    /\ stack[Len(stack)].fn = "process"
    /\ LET f == stack[Len(stack)]
           y == EnumerateAssembly(things, mounts, joints, f.self, TRUE, FALSE, FALSE)
       IN IF f.pos <= Len(y.val)
          THEN IF Len(stack) = RecursionLimit
               THEN /\ stack' = <<>>
                    /\ last' = OutcomeAt("walked", "RecursionError", f.self, Len(stack), 0)
               ELSE /\ stack' = Append([stack EXCEPT ![Len(stack)].pos = f.pos + 1],
                                       [fn |-> "process", self |-> y.val[f.pos].v.wrapped,
                                        sig |-> <<>>, pos |-> 1])
                    /\ last' = OutcomeAt("process", "", y.val[f.pos].v.wrapped,
                                         Len(stack) + 1, 0)
          ELSE IF y.exc # ""
               THEN /\ stack' = <<>>
                    /\ last' = OutcomeAt("walked", y.exc, f.self, Len(stack), 0)
               ELSE /\ stack' = SubSeq(stack, 1, Len(stack) - 1)
                    /\ last' = OutcomeAt(IF Len(stack) = 1 THEN "walked" ELSE "process", "",
                                         f.self, Len(stack) - 1, 0)
    /\ UNCHANGED <<things, registry, cache, mounts, joints, tr>>

\* The script builds joints and then exports: no joint is built during a walk
ExportPairs == {<<2, 4>>, <<4, 6>>, <<3, 6>>}

NextExport ==
    \/ \E kind \in JointKinds, pair \in ExportPairs, peers \in BOOLEAN :
          stack = <<>> /\ NewJoint(kind, pair[1], pair[2], peers, <<>>)
    \/ \E e \in 1..3 : Process(e)
    \/ ProcessStep

SpecExport == Init /\ [][NextExport]_vars

\* The joints of the scene, their parameters and their transforms
Next ==
    \/ \E kind \in JointKinds, pair \in JointPairs, peers \in BOOLEAN :
          NewJoint(kind, pair[1], pair[2], peers, <<>>)
    \/ \E j \in 1..MaxJoints, args \in {<<>>} \cup {<<a>> : a \in Angles} : JointSet(j, args)
    \/ \E j \in 1..MaxJoints, pair \in TransformPairs : CallTransform(j, pair[1], pair[2])

Spec == Init /\ [][Next]_vars

\* Revolute joints with and without limits, and their set
NextRevolute ==
    \/ \E pair \in RevolutePairs, limit_angle \in RevoluteLimits :
          NewJoint("Revolute", pair[1], pair[2], FALSE, limit_angle)
    \/ \E j \in 1..MaxJoints, a \in RevoluteAngles : JointSet(j, <<a>>)

SpecRevolute == Init /\ [][NextRevolute]_vars

\* Walks of the scene's assembly by attribute access
NextWalk ==
    \/ \E kind \in JointKinds, pair \in JointPairs, peers \in BOOLEAN :
          NewJoint(kind, pair[1], pair[2], peers, <<>>)
    \/ \E j \in 1..MaxJoints, a \in Angles : JointSet(j, <<a>>)
    \/ \E e \in 1..3, name \in WalkNames : ThingGetAttr(e, name)
    \/ \E name \in WalkNames : ResolverGetAttr(name)

SpecWalk == Init /\ [][NextWalk]_vars

\* Resolvers built from a mount and a selector, and what they wrap
Selectors == {<<>>, <<0>>, <<1>>, <<2>>, <<-1>>, <<-3>>}
ResolvePairs == {<<2, 4>>, <<6, 4>>, <<4, 6>>}

NextResolve ==
    \/ \E kind \in JointKinds, pair \in ResolvePairs, peers \in BOOLEAN :
          NewJoint(kind, pair[1], pair[2], peers, <<>>)
    \/ \E m \in {2, 4, 6}, which \in Selectors : MakeResolver(m, which)
    \/ ResolverWrapped
    \/ \E name \in WalkNames : ResolverGetAttr(name)

SpecResolve == Init /\ [][NextResolve]_vars

\* ------------------------------------------------------------------------
\* Things: classes, parameter capture, construction
\* ------------------------------------------------------------------------
\* The script's classes and their constructors' parameters after self, each a
\* name and a default (<<>> for none): the classes of examples/very_simple_car.py
\*   class Wheel(Thing):    def __init__(self, radius=400, thickness=100)
\*   class Antenna(Thing):  def __init__(self, length=400, radius=5)
\* the class of the scene, and a chain of classes in the way of
\* partlib/fasteners.py and of the example in the docstring of
\* Thing.__init_subclass__ (the most derived class has a parameter the base
\* classes do not know), with whole numbers:
\*   class Screw(Thing):
\*       def __init__(self, width, length, head_width):
\*           super().__init__(material=Steel())
\*   class MetricScrew(Screw):
\*       def __init__(self, width, length=10):
\*           super().__init__(width=width, length=length, head_width=2*width)
\*   class ScrewM2(MetricScrew):
\*       def __init__(self, length=10, head_width=4, inner_width=1):
\*           super().__init__(2, length)
\* and a class with a parameter whose value is a list:
\*   class Comb(Thing):     def __init__(self, teeth, width=3)
Classes == {"Wheel", "Antenna"}

ParamsOf(cls) ==
    CASE cls = "Wheel" ->
            << [k |-> "radius", d |-> <<400>>], [k |-> "thickness", d |-> <<100>>] >>
      [] cls = "Antenna" ->
            << [k |-> "length", d |-> <<400>>], [k |-> "radius", d |-> <<5>>] >>
      [] cls = "Part" ->
            << [k |-> "x", d |-> <<0>>], [k |-> "tilt", d |-> <<0>>] >>
      [] cls = "Comb" ->
            << [k |-> "teeth", d |-> <<>>], [k |-> "width", d |-> <<3>>] >>
      [] cls = "Screw" ->
            << [k |-> "width", d |-> <<>>], [k |-> "length", d |-> <<>>],
               [k |-> "head_width", d |-> <<>>] >>
      [] cls = "MetricScrew" ->
            << [k |-> "width", d |-> <<>>], [k |-> "length", d |-> <<10>>] >>
      [] cls = "ScrewM2" ->
            << [k |-> "length", d |-> <<10>>], [k |-> "head_width", d |-> <<4>>],
               [k |-> "inner_width", d |-> <<1>>] >>

\* The class a class is derived from
BaseOf(cls) ==
    CASE cls = "ScrewM2" -> "MetricScrew"
      [] cls = "MetricScrew" -> "Screw"
      [] OTHER -> "Thing"

\* The arguments of the super().__init__ call in the constructor of a class
\* derived from another class of the script, given its own bound arguments
SuperCall(cls, bound) ==
    IF cls = "ScrewM2"
    THEN [args |-> <<2, DictGet(bound, "length")>>, kwargs |-> <<>>]
    ELSE [args |-> <<>>,
          kwargs |-> << [k |-> "width", v |-> DictGet(bound, "width")],
                        [k |-> "length", v |-> DictGet(bound, "length")],
                        [k |-> "head_width", v |-> 2 * DictGet(bound, "width")] >>]

\* method_signature.bind(self, *args, **kwargs) and apply_defaults(): the
\* mapping of every parameter to its value, in the order of the parameters
Bind(cls, self, args, kwargs) ==
    LET ps == ParamsOf(cls)
        ByKeyword(i) == {n \in 1..Len(kwargs) : kwargs[n].k = ps[i].k}
        Missing(i) == i > Len(args) /\ ByKeyword(i) = {} /\ ps[i].d = <<>>
        ValueOf(i) ==
            IF i <= Len(args) THEN args[i]
            ELSE IF ByKeyword(i) # {} THEN kwargs[CHOOSE n \in ByKeyword(i) : TRUE].v
                 ELSE ps[i].d[1]
    IN IF \/ Len(args) > Len(ps)
          \/ \E n \in 1..Len(kwargs) : \A i \in 1..Len(ps) : ps[i].k # kwargs[n].k
          \/ \E i \in 1..Len(ps) : i <= Len(args) /\ ByKeyword(i) # {}
          \/ \E i \in 1..Len(ps) : Missing(i)
       THEN Raised("TypeError", <<>>)
       ELSE Returned(<< [k |-> "self", v |-> self] >>
                        \o [i \in 1..Len(ps) |-> [k |-> ps[i].k, v |-> ValueOf(i)]])

\* The entries the wrapped constructors of the base classes append, as each is
\* entered through super().__init__ of the class below it
RECURSIVE SuperCaptures(_, _, _)
SuperCaptures(cls, self, bound) ==
    IF BaseOf(cls) = "Thing" THEN <<>>
    ELSE LET call == SuperCall(cls, bound)
             b == Bind(BaseOf(cls), self, call.args, call.kwargs).val
         IN << [cls |-> BaseOf(cls), args |-> b] >> \o SuperCaptures(BaseOf(cls), self, b)

\* The entry appended when the captured constructor has returned
CapturesAfterInit(cls, self, bound) ==
    SuperCaptures(cls, self, bound) \o << [cls |-> cls, args |-> bound] >>

\* self.__dict__["__parameters__"] after the wrapped constructor of cls, called
\* with the bound arguments, has run: each wrapped constructor appends (cls,
\* bound.arguments) and then enters the captured constructor
Captures(cls, self, bound) ==
    << [cls |-> cls, args |-> bound] >> \o SuperCaptures(cls, self, bound)

\* A cache that never has the signature
CacheMissAlways(c, signature) == TRUE

\* if signature not in MEMOIZATION_CACHE
CacheMiss(c, signature) == signature \notin DOMAIN c

\* ------------------------------------------------------------------------
\* The attribute guard: Thing.__setattr__ and Thing.__setitem__
\* ------------------------------------------------------------------------
\* Names of the class: methods and class attributes every Thing resolves
ClassAttrs == {"result", "adjust", "enumerate_assembly", "__init__", "__dict__"}

\* str.isidentifier() on the names the model uses
IsIdentifier(name) == name \notin {"wheel-fl", ""}

\* Thing.name_mangler: "-" becomes "_"
NameMangler(name) == IF name = "wheel-fl" THEN "wheel_fl" ELSE name

\* dir(self) without the names of the class
DirDictOnly(thing) == {thing.dict[i].k : i \in 1..Len(thing.dict)}

\* dir(self): the names of the instance's __dict__ and those of its class
Dir(thing) == {thing.dict[i].k : i \in 1..Len(thing.dict)} \cup ClassAttrs

\* The function names of the frames of the call stack, innermost first
\* (inspect.stack()[1:] seen from a function called by the innermost frame)
RECURSIVE Callers(_)
Callers(stk) ==
    IF Len(stk) = 0 THEN <<"<module>">>
    ELSE <<stk[Len(stk)].fn>> \o Callers(SubSeq(stk, 1, Len(stk) - 1))

\* The frame check without the case of __setitem__
CalledFromInitDirect(callers) == callers[1] = "__init__"

\* The frame check of Thing.__setattr__ on the callers of __setattr__
CalledFromInit(callers) ==
    \/ callers[1] = "__init__"
    \/ callers[1] = "__setitem__" /\ callers[2] = "__init__"

\* Thing.__setattr__(self, name, value) called with the given callers: the
\* outcome and the heaps of Things and MountPoints afterwards.  The setters
\* of MountPoint.owner and MountPoint.known_as assert that the field is None,
\* the second one after the first has assigned
Setattr(ths, ms, callers, self, name, value) ==
    LET fail(e) == [exc |-> e, things |-> ths, mounts |-> ms]
        stored == [ths EXCEPT ![self].dict = Append(@, [k |-> name, v |-> value])]
    IN IF ~IsIdentifier(name) THEN fail("AssertionError")
       ELSE IF name \in Dir(ths[self]) THEN fail("AttributeError")
       ELSE IF ~CalledFromInit(callers) THEN fail("AttributeError")
       ELSE IF name = "__material__"
            THEN IF value.t # "Material" THEN fail("AssertionError")
                 ELSE [exc |-> "", things |-> stored, mounts |-> ms]
       ELSE IF value.t = "Thing" THEN fail("AttributeError")
       ELSE IF value.t = "MountPoint"
            THEN IF Owned(ms[value.id])
                 THEN IF ms[value.id].owner = self /\ ms[value.id].known_as = name
                      THEN [exc |-> "", things |-> stored, mounts |-> ms]
                      ELSE fail("AssertionError")
                 ELSE IF ms[value.id].owner # 0 THEN fail("AssertionError")
                 ELSE IF ms[value.id].known_as # ""
                      THEN [exc |-> "AssertionError", things |-> ths,
                            mounts |-> [ms EXCEPT ![value.id].owner = self]]
                      ELSE [exc |-> "", things |-> stored,
                            mounts |-> [ms EXCEPT ![value.id].owner = self,
                                                  ![value.id].known_as = name]]
       ELSE [exc |-> "", things |-> stored, mounts |-> ms]

\* Thing.__setitem__(self, name, value): __setattr__ of the mangled name, with
\* __setitem__ as the innermost caller
Setitem(ths, ms, callers, self, name, value) ==
    Setattr(ths, ms, <<"__setitem__">> \o callers, self, NameMangler(name), value)

\* The constructor up to the end of Thing.__init__, for a new instance self of
\* cls with the bound arguments: the wrapped __init__ records the parameters in
\* __dict__, Thing.__init__ registers the instance and sets p, __material__ and
\* origin (a new MountPoint) through __setattr__
ThingInit(ths, reg, ms, cls, self, bound) ==
    LET fresh == [cls |-> cls, parameters |-> Captures(cls, self, bound),
                  dict |-> << [k |-> "__parameters__", v |-> Val("list", self)] >>,
                  done |-> FALSE]
        s1 == Setattr(Append(ths, fresh), ms, <<"__init__">>, self, "p",
                      Val("ParameterResolver", self))
        s2 == Setattr(s1.things, s1.mounts, <<"__init__">>, self, "__material__",
                      Val("Material", self))
        s3 == Setattr(s2.things, Append(s2.mounts, NewMountPoint(Identity, 0, "")),
                      <<"__init__">>, self, "origin", Val("MountPoint", Len(ms) + 1))
    IN [things |-> s3.things, registry |-> Append(reg, self), mounts |-> s3.mounts]

\* ------------------------------------------------------------------------
\* Thing.adjust
\* ------------------------------------------------------------------------
\* A keyword of adjust is a sequence of tokens: <<"width">>, <<"width", "__add">>,
\* <<"__mul">>.  arg_basename: the name up to the first "__" that is not at its
\* start, the whole name otherwise
ArgBasename(key) == key[1]

\* name == "__add", name == "__mul"
IsGlobalKey(key) == key = <<"__add">> \/ key = <<"__mul">>

\* name.endswith(suffix) for a name that is not the suffix alone
EndsWith(key, suffix) == Len(key) > 1 /\ key[Len(key)] = suffix

\* params[k] = v
DictSet(d, k, v) == [i \in 1..Len(d) |-> IF d[i].k = k THEN [k |-> k, v |-> v] ELSE d[i]]

\* The scan of adjust without cls: for each keyword in the order written, the
\* pseudo-keys left out, resolved_index moves forward to the first entry from
\* where it stands that records the keyword's base name; ArgumentError (bad is
\* the keyword) when it leaves the list
RECURSIVE ResolveImplicit(_, _, _)
ResolveImplicit(captured_param_list, keys, resolved_index) ==
    IF Len(keys) = 0 THEN [exc |-> "", index |-> resolved_index, bad |-> <<>>]
    ELSE IF IsGlobalKey(Head(keys))
         THEN ResolveImplicit(captured_param_list, Tail(keys), resolved_index)
    ELSE LET found == {j \in resolved_index..Len(captured_param_list) :
                          DictHas(captured_param_list[j].args, ArgBasename(Head(keys)))}
         IN IF found = {}
            THEN [exc |-> "ArgumentError", index |-> 0, bad |-> Head(keys)]
            ELSE ResolveImplicit(captured_param_list, Tail(keys),
                                 CHOOSE j \in found : \A k \in found : j <= k)

\* The search of adjust with cls given: the first entry of that class
ResolveExplicit(captured_param_list, cls) ==
    LET found == {j \in 1..Len(captured_param_list) : captured_param_list[j].cls = cls}
    IN IF found = {} THEN [exc |-> "AssertionError", index |-> 0, bad |-> <<>>]
       ELSE [exc |-> "", index |-> CHOOSE j \in found : \A k \in found : j <= k, bad |-> <<>>]

\* The new value with the modifier applied the other way round
ModifiedSwapped(old, suffix, value) == IF suffix = "__add" THEN old * value ELSE old + value

\* value = params[name] + value  /  value = params[name] * value
Modified(old, suffix, value) == IF suffix = "__add" THEN old + value ELSE old * value

\* items * n for a list
RECURSIVE Repeat(_, _)
Repeat(items, n) == IF n <= 0 THEN <<>> ELSE items \o Repeat(items, n - 1)

\* The loop of adjust over kwargs.items(), from state st = [exc, params,
\* modified_lookup, add_all, mul_all, fresh].  params[name] + value raises
\* TypeError for a list and a number, and params[name] * value is a new list
\* (of identity fresh)
RECURSIVE ApplyKwargs(_, _)
ApplyKwargs(kwargs, st) ==
    IF Len(kwargs) = 0 \/ st.exc # "" THEN st
    ELSE LET name == Head(kwargs).k
             value == Head(kwargs).v
             base == ArgBasename(name)
             suffix == name[Len(name)]
             next ==
                IF name = <<"__add">> THEN [st EXCEPT !.add_all = value]
                ELSE IF name = <<"__mul">> THEN [st EXCEPT !.mul_all = value]
                ELSE IF EndsWith(name, "__add") \/ EndsWith(name, "__mul")
                THEN IF <<base>> \in st.modified_lookup
                     THEN [st EXCEPT !.exc = "AssertionError"]
                     ELSE IF ~DictHas(st.params, base) THEN [st EXCEPT !.exc = "KeyError"]
                     ELSE IF base \in ListParams
                     THEN IF suffix = "__add" THEN [st EXCEPT !.exc = "TypeError"]
                          ELSE [st EXCEPT
                                  !.modified_lookup = @ \cup {<<base>>},
                                  !.params = DictSet(@, base,
                                      List(st.fresh, Repeat(DictGet(@, base).items, value)))]
                     ELSE [st EXCEPT
                             !.modified_lookup = @ \cup {<<base>>},
                             !.params = DictSet(@, base,
                                                Modified(DictGet(@, base), suffix, value))]
                ELSE IF name \in st.modified_lookup
                     THEN [st EXCEPT !.exc = "AssertionError"]
                     ELSE IF ~(Len(name) = 1 /\ DictHas(st.params, name[1]))
                          THEN [st EXCEPT !.exc = "AssertionError"]
                     ELSE [st EXCEPT !.modified_lookup = @ \cup {name},
                                     !.params = DictSet(@, name[1], value)]
         IN ApplyKwargs(Tail(kwargs), next)

\* The global deltas applied to every parameter: params[name] += add_all,
\* params[name] *= mul_all.  For a number the item of params is bound to a new
\* number; for a list, += with a number raises TypeError and *= repeats the
\* items of the list object in place, so the object keeps its identity
ApplyGlobal(st) ==
    IF st.exc # "" THEN st
    ELSE IF st.add_all # 0 /\ st.mul_all # 1 THEN [st EXCEPT !.exc = "ValueError"]
    ELSE IF st.add_all # 0
         THEN IF \E i \in 1..Len(st.params) : st.params[i].k \in ListParams
              THEN [st EXCEPT !.exc = "TypeError"]
              ELSE [st EXCEPT !.params =
                        [i \in 1..Len(@) |-> [k |-> @[i].k, v |-> @[i].v + st.add_all]]]
    ELSE IF st.mul_all # 1
         THEN [st EXCEPT !.params =
                  [i \in 1..Len(@) |->
                      [k |-> @[i].k,
                       v |-> IF @[i].k \in ListParams
                             THEN [@[i].v EXCEPT !.items = Repeat(@, st.mul_all)]
                             ELSE @[i].v * st.mul_all]]]
    ELSE st

\* Thing.adjust(self, cls, **kwargs) up to its last line: the class and the
\* keyword arguments of the constructor call it ends with, or the exception.
\* cls = "" stands for None; fresh is the identity of a list the call creates
AdjustCall(captured_param_list, cls, kwargs, fresh) ==
    LET r == IF cls = ""
             THEN ResolveImplicit(captured_param_list,
                                  [n \in 1..Len(kwargs) |-> kwargs[n].k], 1)
             ELSE ResolveExplicit(captured_param_list, cls)
        entry == captured_param_list[r.index].args
        copied == SelectSeq(entry, LAMBDA item : item.k # "self")
        st == ApplyGlobal(ApplyKwargs(kwargs,
                  [exc |-> "", params |-> copied, modified_lookup |-> {},
                   add_all |-> 0, mul_all |-> 1, fresh |-> fresh]))
    IN IF r.exc # ""
       THEN [exc |-> r.exc, cls |-> "", index |-> 0, params |-> <<>>, bad |-> r.bad]
       ELSE IF st.exc # ""
       THEN [exc |-> st.exc, cls |-> "", index |-> r.index, params |-> <<>>, bad |-> <<>>]
       ELSE [exc |-> "", cls |-> captured_param_list[r.index].cls, index |-> r.index,
             params |-> st.params, bad |-> <<>>]

\* The Things after adjust has computed the new parameters.  params is a
\* shallow copy (copy.copy) of the entry: the entry keeps its items, but the
\* values of the copy are the objects of the entry, so that a list that was
\* changed in place has changed for every captured entry that holds it
OriginalAfter(ths, self, index, params) ==
    LET Held(item) == IF item.k \in ListParams
                         /\ \E n \in 1..Len(params) :
                               params[n].k \in ListParams /\ params[n].v.id = item.v.id
                      THEN [item EXCEPT !.v =
                              params[CHOOSE n \in 1..Len(params) :
                                  params[n].k \in ListParams /\ params[n].v.id = item.v.id].v]
                      ELSE item
    IN [t \in 1..Len(ths) |->
          [ths[t] EXCEPT !.parameters =
              [j \in 1..Len(@) |-> [@[j] EXCEPT !.args = [i \in 1..Len(@) |-> Held(@[i])]]]]]

\* ------------------------------------------------------------------------
\* The script: constructor calls, frames and attribute writes
\* ------------------------------------------------------------------------
\* Things constructed, and MountPoints before the script makes no further one
MaxThings == 2
MaxMounts == 2

\* A script starts with nothing constructed
InitEmpty ==
    /\ things = <<>>
    /\ registry = <<>>
    /\ cache = <<>>
    /\ mounts = <<>>
    /\ joints = <<>>
    /\ stack = <<>>
    /\ tr = <<>>
    /\ last = Outcome("", "", 0)

\* The running code evaluates C(*args, **kwargs): memoized around
\* ThingMeta.__call__.  On a hit the cached instance is the result.  On a miss
\* type.__call__ creates the instance and enters the wrapped __init__, which
\* binds the arguments (TypeError when they do not fit), records them, and
\* enters the class's own __init__, whose first statement is super().__init__.
\* rec is the record of the operation that makes the call, ths the Things
CallAs(rec, ths, cls, args, kwargs) ==
    LET signature == Signature(cls, args, kwargs)
        self == Len(ths) + 1
        bound == Bind(cls, self, args, kwargs)
        new == ThingInit(ths, registry, mounts, cls, self, bound.val)
    IN IF ~CacheMiss(cache, signature)
       THEN /\ last' = [rec EXCEPT !.res = "", !.id = cache[signature], !.sig = signature]
            /\ things' = ths
            /\ UNCHANGED <<registry, cache, mounts, joints, stack, tr>>
       ELSE IF bound.exc # ""
       THEN /\ last' = [rec EXCEPT !.res = bound.exc, !.id = 0, !.sig = signature]
            /\ things' = ths
            /\ UNCHANGED <<registry, cache, mounts, joints, stack, tr>>
       ELSE /\ Len(ths) < MaxThings
            /\ things' = new.things
            /\ registry' = new.registry
            /\ mounts' = new.mounts
            /\ stack' = Append(stack, [fn |-> "__init__", self |-> self, sig |-> signature])
            /\ last' = [rec EXCEPT !.res = "", !.id = self, !.sig = signature]
            /\ UNCHANGED <<cache, joints, tr>>

\* The running code evaluates C(*args, **kwargs)
Call(cls, args, kwargs) ==
    CallAs([Outcome("call", "", 0) EXCEPT !.args = args, !.kw = kwargs],
           things, cls, args, kwargs)

\* The running code evaluates  e.adjust(cls, **kwargs): the record of the
\* operation keeps the Thing adjusted (a), the entry resolved (b) and its
\* class (name), the cls given (t), the keywords (kw) and the keyword an
\* ArgumentError reports (args)
Adjust(e, cls, kwargs) ==
    /\ e \in 1..Len(things)
    /\ LET r == AdjustCall(things[e].parameters, cls, kwargs, Len(things) + 1)
           rec == [Outcome("adjust", r.exc, 0) EXCEPT
                      !.a = e, !.b = r.index, !.name = r.cls, !.t = cls,
                      !.kw = kwargs, !.args = r.bad]
       IN IF r.exc # ""
          THEN /\ last' = rec
               /\ UNCHANGED <<things, registry, cache, mounts, joints, stack, tr>>
          ELSE CallAs(rec, OriginalAfter(things, e, r.index, r.params), r.cls, <<>>, r.params)

\* The innermost constructor returns: ThingMeta.__call__ returns the instance
\* and memoized stores it under the signature of the call
Return ==
    /\ Len(stack) > 0
    /\ stack[Len(stack)].fn = "__init__"
    /\ LET f == stack[Len(stack)]
       IN /\ cache' = CachePut(cache, f.sig, f.self)
          /\ things' = [things EXCEPT ![f.self].done = TRUE]
          /\ last' = OutcomeSig("return", "", f.self, f.sig)
    /\ stack' = SubSeq(stack, 1, Len(stack) - 1)
    /\ UNCHANGED <<registry, mounts, joints, tr>>

\* The innermost constructor raises: nothing is stored in the cache
Raise ==
    /\ Len(stack) > 0
    /\ stack[Len(stack)].fn = "__init__"
    /\ last' = OutcomeSig("raise", "ValueError", stack[Len(stack)].self, stack[Len(stack)].sig)
    /\ stack' = SubSeq(stack, 1, Len(stack) - 1)
    /\ UNCHANGED <<things, registry, cache, mounts, joints, tr>>

\* A constructor calls a helper function, which is then the running code
Enter ==
    /\ Len(stack) > 0
    /\ stack[Len(stack)].fn = "__init__"
    /\ stack' = Append(stack, [fn |-> "helper", self |-> stack[Len(stack)].self, sig |-> <<>>])
    /\ last' = Outcome("enter", "", stack[Len(stack)].self)
    /\ UNCHANGED <<things, registry, cache, mounts, joints, tr>>

\* The helper function returns
Leave ==
    /\ Len(stack) > 0
    /\ stack[Len(stack)].fn = "helper"
    /\ stack' = SubSeq(stack, 1, Len(stack) - 1)
    /\ last' = Outcome("leave", "", stack[Len(stack)].self)
    /\ UNCHANGED <<things, registry, cache, mounts, joints, tr>>

\* The running code executes  e.name = value
SetAttr(e, name, value) ==
    /\ e \in 1..Len(things)
    /\ value.t = "MountPoint" => value.id \in 1..Len(mounts)
    /\ value.t = "Thing" => value.id \in 1..Len(things)
    /\ LET r == Setattr(things, mounts, Callers(stack), e, name, value)
       IN /\ things' = r.things
          /\ mounts' = r.mounts
          /\ last' = OutcomeName("setattr", r.exc, e, name, value)
    /\ UNCHANGED <<registry, cache, joints, stack, tr>>

\* The running code executes  e[name] = value
SetItem(e, name, value) ==
    /\ e \in 1..Len(things)
    /\ value.t = "MountPoint" => value.id \in 1..Len(mounts)
    /\ value.t = "Thing" => value.id \in 1..Len(things)
    /\ LET r == Setitem(things, mounts, Callers(stack), e, name, value)
       IN /\ things' = r.things
          /\ mounts' = r.mounts
          /\ last' = OutcomeName("setitem", r.exc, e, name, value)
    /\ UNCHANGED <<registry, cache, joints, stack, tr>>

\* The running code executes  MountPoint(location, owner, known_as)
MakeMount(owner, known_as) ==
    /\ Len(mounts) < MaxMounts
    /\ owner \in 0..Len(things)
    /\ mounts' = Append(mounts, NewMountPoint(Location(<<0, 0, 5>>, <<0, 0, 0>>), owner, known_as))
    /\ last' = Outcome("MountPoint", "", Len(mounts) + 1)
    /\ UNCHANGED <<things, registry, cache, joints, stack, tr>>

\* The constructor calls of the memoization script: the same Wheel written in
\* every split between positional and keyword form, another Wheel, an Antenna,
\* and calls that do not fit the parameters
Kw(k, v) == [k |-> k, v |-> v]

MemoCalls ==
    { <<"Wheel", <<>>, <<>>>>,
      <<"Wheel", <<400>>, <<>>>>,
      <<"Wheel", <<400, 100>>, <<>>>>,
      <<"Wheel", <<400>>, <<Kw("thickness", 100)>>>>,
      <<"Wheel", <<>>, <<Kw("radius", 400), Kw("thickness", 100)>>>>,
      <<"Wheel", <<>>, <<Kw("thickness", 100), Kw("radius", 400)>>>>,
      <<"Wheel", <<300>>, <<>>>>,
      <<"Antenna", <<>>, <<>>>>,
      <<"Antenna", <<400, 5>>, <<>>>>,
      <<"Wheel", <<400, 100, 1>>, <<>>>>,
      <<"Wheel", <<400>>, <<Kw("radius", 400)>>>>,
      <<"Wheel", <<>>, <<Kw("width", 100)>>>> }

NextMemo ==
    \/ \E c \in MemoCalls : Call(c[1], c[2], c[3])
    \/ Return
    \/ Raise

SpecMemo == InitEmpty /\ [][NextMemo]_vars

\* signature = str(args) + str(kwargs) in memoized for a method called as
\* things[self].method(**kwargs): args is (self,), and a Thing has the repr of
\* object, its class and its address
MethodSignature(ths, self, kwargs) ==
    <<"(", "<", ths[self].cls, " object at ", ToString(self), ">", ",", ")">>
        \o StrKwargs(kwargs)

\* The body of the memoized method: volume_mm3 raises for recurse=True; what
\* is computed otherwise is kept as the method that computed it, the Thing and
\* the keywords
MethodBody(method, self, kwargs) ==
    IF method = "volume_mm3" /\ \E n \in 1..Len(kwargs) : kwargs[n] = [k |-> "recurse", v |-> TRUE]
    THEN Raised("NotImplementedError", <<>>)
    ELSE Returned([by |-> method, self |-> self, kw |-> kwargs])

\* things[e].volume_mm3(**kwargs) or things[e].matrix_of_inertia(**kwargs)
\* called by the script: memoized looks the signature up in the one
\* MEMOIZATION_CACHE and runs the method on a miss.  The outcome keeps the
\* value returned (args).
MemoizedMethod(method, e, kwargs) ==
    /\ e \in 1..Len(things)
    /\ things[e].done
    /\ LET signature == MethodSignature(things, e, kwargs)
           r == IF CacheMiss(cache, signature) THEN MethodBody(method, e, kwargs)
                ELSE Returned(cache[signature])
       IN /\ cache' = IF r.exc = "" THEN CachePut(cache, signature, r.val) ELSE cache
          /\ last' = [OutcomeSig(method, r.exc, e, signature) EXCEPT
                         !.args = IF r.exc = "" THEN <<r.val>> ELSE <<>>, !.kw = kwargs]
    /\ UNCHANGED <<things, registry, mounts, joints, stack, tr>>

\* The script of the memoized methods: Wheels are built and measured
MethodCalls == { <<"Wheel", <<>>, <<>>>>, <<"Wheel", <<300>>, <<>>>> }
VolumeKwargs == { <<>>, <<[k |-> "recurse", v |-> FALSE]>>, <<[k |-> "recurse", v |-> TRUE]>> }
InertiaKwargs == { <<>>, <<[k |-> "precise", v |-> TRUE]>> }

NextMethods ==
    \/ \E c \in MethodCalls : Len(stack) = 0 /\ Call(c[1], c[2], c[3])
    \/ Return
    \/ \E e \in 1..MaxThings, kwargs \in VolumeKwargs : MemoizedMethod("volume_mm3", e, kwargs)
    \/ \E e \in 1..MaxThings, kwargs \in InertiaKwargs :
          MemoizedMethod("matrix_of_inertia", e, kwargs)

SpecMethods == InitEmpty /\ [][NextMethods]_vars

\* The attribute-write script constructs one Wheel at its top level, whose
\* constructor and helper write attributes, as does the top level
GuardNames == {"axle", "origin", "result", "wheel-fl"}
GuardValues == {Val("int", 7), Val("Thing", 1)} \cup {Val("MountPoint", m) : m \in 1..MaxMounts}

NextGuard ==
    \/ Len(stack) = 0 /\ Call("Wheel", <<>>, <<>>)
    \/ Return
    \/ Enter
    \/ Leave
    \/ \E e \in 1..MaxThings, n \in GuardNames, v \in GuardValues : SetAttr(e, n, v)
    \/ \E e \in 1..MaxThings, n \in GuardNames, v \in GuardValues : SetItem(e, n, v)
    \/ \E o \in {0, 1}, n \in {"", "axle"} : MakeMount(o, n)

SpecGuard == InitEmpty /\ [][NextGuard]_vars

\* ------------------------------------------------------------------------
\* The script of two Things: writes across Things, and deletions
\* ------------------------------------------------------------------------
\* del self.name: Thing defines no __delattr__, so the name is removed from the
\* instance's __dict__, with AttributeError when it is not there
Delattr(ths, self, name) ==
    LET d == ths[self].dict
        keep == {i \in 1..Len(d) : d[i].k # name}
        RECURSIVE Kept(_)
        Kept(n) == IF n = 0 THEN <<>>
                   ELSE IF n \in keep THEN Append(Kept(n - 1), d[n]) ELSE Kept(n - 1)
    IN IF DictHas(d, name)
       THEN [exc |-> "", things |-> [ths EXCEPT ![self].dict = Kept(Len(d))]]
       ELSE [exc |-> "AttributeError", things |-> ths]

\* The running code executes  del e.name
DelAttr(e, name) ==
    /\ e \in 1..Len(things)
    /\ LET r == Delattr(things, e, name)
       IN /\ things' = r.things
          /\ last' = OutcomeName("delattr", r.exc, e, name, Val("", 0))
    /\ UNCHANGED <<registry, cache, mounts, joints, stack, tr>>

\* The script constructs a Wheel and an Antenna, one possibly inside the
\* constructor of the other; the running code writes and deletes attributes of
\* either
OwnerNames == {"axle", "origin"}
OwnerValues == {Val("int", 7)} \cup {Val("MountPoint", m) : m \in 1..MaxThings}

NextOwner ==
    \/ \E c \in {"Wheel", "Antenna"} : Call(c, <<>>, <<>>)
    \/ Return
    \/ \E e \in 1..MaxThings, n \in OwnerNames, v \in OwnerValues : SetAttr(e, n, v)
    \/ \E e \in 1..MaxThings, n \in OwnerNames : DelAttr(e, n)

SpecOwner == InitEmpty /\ [][NextOwner]_vars

\* The script of the rejected writes: one Wheel constructed at the top level;
\* its constructor, a helper and the top level write attributes, and delete
\* the material so that it can be written anew
KindNames == {"axle", "__material__", "wheel-fl"}
KindValues ==
    {Val("int", 7), Val("Thing", 1), Val("Material", 0), Val("MountPoint", 1)}

NextKinds ==
    \/ Len(stack) = 0 /\ Call("Wheel", <<>>, <<>>)
    \/ Return
    \/ Enter
    \/ Leave
    \/ \E n \in KindNames, v \in KindValues : SetAttr(1, n, v)
    \/ \E n \in KindNames, v \in KindValues : SetItem(1, n, v)
    \/ DelAttr(1, "__material__")

SpecKinds == InitEmpty /\ [][NextKinds]_vars

\* The adjust script: the top level constructs Things of the chain of screws
\* and a Wheel, and adjusts them, one construction at a time
AdjustCalls ==
    { <<"ScrewM2", <<>>, <<>>>>,
      <<"MetricScrew", <<3>>, <<>>>>,
      <<"MetricScrew", <<>>, <<>>>>,
      <<"Wheel", <<>>, <<>>>> }

Delta(name, suffix, v) == [k |-> IF suffix = "" THEN <<name>> ELSE <<name, suffix>>, v |-> v]
Global(suffix, v) == [k |-> <<suffix>>, v |-> v]

AdjustKwargs ==
    { <<>>,
      <<Delta("length", "", 20)>>,
      <<Delta("length", "__add", 5)>>,
      <<Delta("length", "__mul", 2)>>,
      <<Delta("width", "", 3)>>,
      <<Delta("head_width", "", 6), Delta("width", "", 3)>>,
      <<Delta("width", "", 3), Delta("head_width", "", 6)>>,
      <<Delta("inner_width", "", 2), Delta("width", "", 3)>>,
      <<Delta("width", "", 3), Delta("inner_width", "", 2)>>,
      <<Delta("head_width", "__add", 1), Delta("width", "__mul", 2)>>,
      <<Delta("radius", "", 7)>>,
      <<Delta("length", "", 20), Delta("length", "__add", 1)>>,
      <<Delta("length", "__sub", 1)>>,
      <<Global("__add", 1)>>,
      <<Global("__mul", 2)>>,
      <<Global("__add", 1), Global("__mul", 2)>>,
      <<Global("__add", 0), Global("__mul", 2)>>,
      <<Delta("length", "", 20), Global("__add", 1)>>,
      <<Delta("length", "__add", 5), Global("__mul", 2)>> }

NextAdjust ==
    \/ Len(stack) = 0 /\ \E c \in AdjustCalls : Call(c[1], c[2], c[3])
    \/ Return
    \/ Len(stack) = 0 /\ \E e \in 1..MaxThings, k \in AdjustKwargs : Adjust(e, "", k)
    \/ Len(stack) = 0 /\ \E e \in 1..MaxThings, c \in {"Screw", "Wheel"} :
            Adjust(e, c, <<Delta("length", "__add", 5)>>)

SpecAdjust == InitEmpty /\ [][NextAdjust]_vars

\* The script of the Comb: the top level constructs Combs from list
\* literals and adjusts them; the list a literal creates has the identity of
\* the Thing that is constructed with it
CombTeeth == {<<1>>, <<1, 2>>}

CombKwargs ==
    { <<>>,
      <<Delta("width", "", 5)>>,
      <<Delta("width", "__add", 1)>>,
      <<Delta("teeth", "__mul", 2)>>,
      <<Delta("teeth", "__add", 1)>>,
      <<Global("__mul", 2)>>,
      <<Global("__add", 1)>>,
      <<Delta("width", "__mul", 2), Global("__mul", 2)>> }

NextShared ==
    \/ Len(stack) = 0 /\ \E items \in CombTeeth :
            Call("Comb", <<>>, <<[k |-> "teeth", v |-> List(Len(things) + 1, items)]>>)
    \/ Return
    \/ Len(stack) = 0 /\ \E e \in 1..MaxThings :
            \E k \in CombKwargs : Adjust(e, "", k)
    \/ Len(stack) = 0 /\ \E e \in 1..MaxThings :
            Adjust(e, "", <<Delta("teeth", "", List(Len(things) + 1, <<2>>))>>)

SpecShared == InitEmpty /\ [][NextShared]_vars

\* ------------------------------------------------------------------------
\* Properties of Things
\* ------------------------------------------------------------------------
\* The name is an attribute of the instance or an attribute or method of its class
Resolves(thing, name) == DictHas(thing.dict, name) \/ name \in ClassAttrs

\* The attribute name an attribute write addresses: e[name] mangles it
WrittenName(l) == IF l.op = "setitem" THEN NameMangler(l.name) ELSE l.name

\* C1: an attribute write e.name = v or e[name] = v to a name that already
\* resolves on e raises AttributeError, whatever the value and whoever the
\* caller (the constructor of e included), and changes no Thing and no MountPoint
C1_ReassignmentFails ==
    [][(/\ last'.op \in {"setattr", "setitem"}
        /\ last'.id \in 1..Len(things)
        /\ Resolves(things[last'.id], WrittenName(last')))
            => (/\ last'.res = "AttributeError"
                /\ things' = things
                /\ mounts' = mounts)]_vars

\* The constructor of a Thing has just tried to overwrite with an integer the
\* component axle it had stored before, and failed
C1_Witness ==
    /\ last.op = "setattr"
    /\ last.name = "axle"
    /\ last.a = 7
    /\ last.res = "AttributeError"
    /\ Len(stack) > 0
    /\ stack[Len(stack)].fn = "__init__"
    /\ stack[Len(stack)].self = last.id
    /\ DictHas(things[last.id].dict, "axle")

\* The values a call bound to the constructor's parameters (self left out)
BoundValues(thing) == Tail(thing.parameters[1].args)

\* C2: two constructor calls of one class that bind the same value to every
\* parameter return the identical instance: any two signatures in the cache
\* whose instances have the same class and the same bound values lead to the
\* same instance
C2_EqualArgumentsSameInstance ==
    \A s1 \in DOMAIN cache, s2 \in DOMAIN cache :
        (/\ things[cache[s1]].cls = things[cache[s2]].cls
         /\ BoundValues(things[cache[s1]]) = BoundValues(things[cache[s2]]))
            => cache[s1] = cache[s2]

\* C3: a constructor call whose signature is in the cache returns the cached
\* instance, and no constructor runs: the Things with their captured parameters,
\* the registry, the cache, the MountPoints and the frames are unchanged
C3_CacheHitChangesNothing ==
    [][(last'.op = "call" /\ last'.sig \in DOMAIN cache)
            => (/\ last'.res = ""
                /\ last'.id = cache[last'.sig]
                /\ things' = things
                /\ registry' = registry
                /\ cache' = cache
                /\ mounts' = mounts
                /\ stack' = stack)]_vars

\* A call has just hit the cache, with two Things constructed and the instance
\* returned being the first of them
C3_Witness ==
    /\ last.op = "call"
    /\ last.sig \in DOMAIN cache
    /\ last.id = cache[last.sig]
    /\ last.id = 1
    /\ Len(registry) = 2
    /\ things[1].done

\* C11: an attribute write on a Thing is accepted only while that Thing's own
\* constructor is the running code: whenever a write was accepted, the innermost
\* frame is __init__ of the Thing written to.
C11_WritesOnlyInOwnConstructor ==
    (last.op \in {"setattr", "setitem"} /\ last.res = "") =>
        /\ Len(stack) > 0
        /\ stack[Len(stack)].fn = "__init__"
        /\ stack[Len(stack)].self = last.id

\* C12: once a Thing's construction has completed, in every step each entry of
\* its __dict__ (name and value) is still there afterwards.
C12_AttributesNeverShrink ==
    [][\A e \in 1..Len(things) :
          things[e].done =>
              \A i \in 1..Len(things[e].dict) :
                  \E k \in 1..Len(things'[e].dict) : things'[e].dict[k] = things[e].dict[i]]_vars

\* C13 as stated: every rejected attribute write raises AttributeError.
C13_RejectedWritesRaiseAttributeError ==
    (last.op \in {"setattr", "setitem"} /\ last.res # "") => last.res = "AttributeError"

\* C13 as amended: a rejected attribute write raises AssertionError when the
\* name is not an identifier, and when the name is new, the caller is a
\* constructor and the value is a non-Material under the material name or a
\* MountPoint that cannot be claimed; it raises AttributeError for a
\* reassignment, for a write outside a constructor and for a Thing value.
C13_RejectionKinds ==
    (last.op \in {"setattr", "setitem"} /\ last.res # "") =>
        LET n == WrittenName(last)
            inInit == Len(stack) > 0 /\ stack[Len(stack)].fn = "__init__"
        IN IF n = "wheel-fl"
           THEN last.res = "AssertionError"
           ELSE IF Resolves(things[last.id], n) \/ ~inInit
                THEN last.res = "AttributeError"
           ELSE IF n = "__material__"
                THEN last.res = "AssertionError" /\ last.t # "Material"
           ELSE IF last.t = "Thing"
                THEN last.res = "AttributeError"
           ELSE last.res = "AssertionError" /\ last.t = "MountPoint"

\* C13 witness: a constructor's write of a non-Material under the material
\* name was rejected by the assertion
C13_Witness ==
    /\ last.op = "setattr" /\ last.name = "__material__" /\ last.t = "int"
    /\ last.res = "AssertionError"

\* The (Thing, name) pairs under which MountPoint m is stored
StoredAs(m) ==
    {p \in (1..Len(things)) \X {"origin", "axle", "wheel_fl"} :
        DictHas(things[p[1]].dict, p[2])
        /\ DictGet(things[p[1]].dict, p[2]) = Val("MountPoint", m)}

\* C14: a MountPoint written successfully under name N of Thing E has owner E
\* and known_as N; every MountPoint is stored under at most one (Thing, name)
\* pair, which is its owner and known_as; owner and known_as of a stored
\* MountPoint never change; and a rejected write changes no MountPoint.
C14_MountOwnershipIsPermanent ==
    /\ [](\A m \in 1..Len(mounts) : \A p \in StoredAs(m) :
            mounts[m].owner = p[1] /\ mounts[m].known_as = p[2])
    /\ [][\A m \in 1..Len(mounts) :
            StoredAs(m) # {} =>
                mounts'[m].owner = mounts[m].owner /\ mounts'[m].known_as = mounts[m].known_as]_vars
    /\ [][(last'.op \in {"setattr", "setitem"} /\ last'.res # "") => mounts' = mounts]_vars

\* ------------------------------------------------------------------------
\* Properties of adjust

\* The base names of the keywords that are not pseudo-keys
BaseNames(kw) == {kw[n].k[1] : n \in {m \in 1..Len(kw) : ~IsGlobalKey(kw[m].k)}}

\* The entries of a history that record every base name of the keywords
Covering(history, kw) ==
    {j \in 1..Len(history) :
        \A b \in BaseNames(kw) : \E i \in 1..Len(history[j].args) : history[j].args[i].k = b}

\* Keywords that are sound apart from the entry they resolve to: every base
\* name once, bare or with __add or __mul, and at most one pseudo-key
SoundKeywords(kw) ==
    /\ \A n, m \in 1..Len(kw) : kw[n].k[1] = kw[m].k[1] => n = m
    /\ \A n \in 1..Len(kw) : Len(kw[n].k) = 1 \/ kw[n].k[2] \in {"__add", "__mul"}
    /\ \A n, m \in 1..Len(kw) : IsGlobalKey(kw[n].k) /\ IsGlobalKey(kw[m].k) => n = m

\* The last operation was adjust without cls
ImplicitAdjust == last.op = "adjust" /\ last.t = "" /\ last.a \in 1..Len(things)

\* C15: adjust without cls resolves to the first entry of the history that
\* records every base name of the keywords, whatever the order the keywords
\* are written in, and succeeds whenever there is such an entry
C15_ImplicitResolutionIsFirstCoveringEntry ==
    (ImplicitAdjust /\ SoundKeywords(last.kw)
        /\ Covering(things[last.a].parameters, last.kw) # {})
    => LET history == things[last.a].parameters
           first == CHOOSE j \in Covering(history, last.kw) :
                        \A k \in Covering(history, last.kw) : j <= k
       IN /\ last.res = ""
          /\ last.b = first
          /\ last.name = history[first].cls

\* C16: when no entry of the history records every base name of the keywords,
\* adjust without cls raises ArgumentError, which reports one of the keywords,
\* and neither constructs nor caches a Thing
C16_UncoveredNamesRaiseArgumentError ==
    [][(ImplicitAdjust' /\ Covering(things[last'.a].parameters, last'.kw) = {})
       => /\ last'.res = "ArgumentError"
          /\ \E n \in 1..Len(last'.kw) : last'.kw[n].k = last'.args
          /\ things' = things /\ registry' = registry /\ cache' = cache]_vars

\* The last operation was an adjust that returned a Thing
AdjustReturned ==
    /\ last.op = "adjust" /\ last.res = ""
    /\ last.a \in 1..Len(things) /\ last.id \in 1..Len(things)

\* The keywords of kw that target parameter p, and the value of a pseudo-key
\* (neutral when it is not given)
Targeting(kw, p) == {n \in 1..Len(kw) : ~IsGlobalKey(kw[n].k) /\ kw[n].k[1] = p}
GlobalValue(kw, key, neutral) ==
    IF \E n \in 1..Len(kw) : kw[n].k = <<key>>
    THEN kw[CHOOSE n \in 1..Len(kw) : kw[n].k = <<key>>].v
    ELSE neutral

\* The value the keywords give parameter p, whose old value is old, before
\* the pseudo-keys
Targeted(kw, p, old) ==
    IF Targeting(kw, p) = {} THEN old
    ELSE LET d == kw[CHOOSE n \in Targeting(kw, p) : TRUE]
         IN IF Len(d.k) = 1 THEN d.v
            ELSE IF d.k[2] = "__add" THEN old + d.v
            ELSE old * d.v

\* The entry adjusted and the first entry of the Thing returned, without self
OldEntry == SelectSeq(things[last.a].parameters[last.b].args, LAMBDA item : item.k # "self")
NewEntry == SelectSeq(things[last.id].parameters[1].args, LAMBDA item : item.k # "self")

\* C17 as stated: in the Thing returned, a targeted parameter has the value
\* given, old + delta or old * factor, and a parameter not targeted keeps its
\* old value when no pseudo-key is given
C17_AdjustedValues ==
    AdjustReturned =>
        /\ things[last.id].parameters[1].cls = last.name
        /\ Len(NewEntry) = Len(OldEntry)
        /\ \A i \in 1..Len(OldEntry) :
              /\ NewEntry[i].k = OldEntry[i].k
              /\ Targeting(last.kw, OldEntry[i].k) # {}
                    => NewEntry[i].v = Targeted(last.kw, OldEntry[i].k, OldEntry[i].v)
              /\ (Targeting(last.kw, OldEntry[i].k) = {}
                    /\ \A n \in 1..Len(last.kw) : ~IsGlobalKey(last.kw[n].k))
                    => NewEntry[i].v = OldEntry[i].v

\* C17, amended: every parameter, targeted or not, has the value b that is the
\* value given, old + delta, old * factor or the old value: b + g when __add
\* is given as g # 0, b * f when __mul is given as f # 1, and b otherwise
C17_AdjustedValuesWithGlobals ==
    AdjustReturned =>
        /\ things[last.id].parameters[1].cls = last.name
        /\ Len(NewEntry) = Len(OldEntry)
        /\ \A i \in 1..Len(OldEntry) :
              /\ NewEntry[i].k = OldEntry[i].k
              /\ NewEntry[i].v =
                    LET b == Targeted(last.kw, OldEntry[i].k, OldEntry[i].v)
                        g == GlobalValue(last.kw, "__add", 0)
                        f == GlobalValue(last.kw, "__mul", 1)
                    IN IF g # 0 THEN b + g ELSE IF f # 1 THEN b * f ELSE b

C17_Witness ==
    /\ AdjustReturned
    /\ last.kw = <<Delta("length", "__add", 5), Global("__mul", 2)>>
    /\ things[last.a].cls = "ScrewM2"
    /\ NewEntry = << [k |-> "length", v |-> 30], [k |-> "head_width", v |-> 8],
                     [k |-> "inner_width", v |-> 2] >>

\* C18: an adjust that is given both pseudo-keys, __add and __mul, fails
\* whatever their values, and constructs no Thing
C18_BothGlobalsFail ==
    [][(/\ last'.op = "adjust"
        /\ \E n \in 1..Len(last'.kw) : last'.kw[n].k = <<"__add">>
        /\ \E n \in 1..Len(last'.kw) : last'.kw[n].k = <<"__mul">>)
       => /\ last'.res # ""
          /\ things' = things /\ registry' = registry /\ cache' = cache]_vars

\* C19: adjust leaves the Thing it is called on as it was, its captured
\* parameter history and its attributes, whether it returns or raises
C19_AdjustLeavesOriginalUnchanged ==
    [][(last'.op = "adjust" /\ last'.a \in 1..Len(things))
       => things'[last'.a] = things[last'.a]]_vars

\* The classes of the script from cls up to, and without, Thing
RECURSIVE ChainOf(_)
ChainOf(cls) == IF cls = "Thing" THEN <<>> ELSE <<cls>> \o ChainOf(BaseOf(cls))

\* C20: the history of a Thing has one entry for each class of its chain whose
\* constructor ran, the most derived class first; each entry holds the class
\* and the value of every parameter of that constructor, self and the
\* defaults included, as bound from the arguments the constructor was called with
C20_OneEntryPerConstructor ==
    /\ \A e \in 1..Len(things) :
          LET history == things[e].parameters
              chain == ChainOf(things[e].cls)
          IN /\ Len(history) = Len(chain)
             /\ \A i \in 1..Len(chain) :
                   /\ history[i].cls = chain[i]
                   /\ [n \in 1..Len(history[i].args) |-> history[i].args[n].k]
                        = <<"self">> \o [n \in 1..Len(ParamsOf(chain[i])) |-> ParamsOf(chain[i])[n].k]
                   /\ history[i].args[1].v = e
                   /\ i < Len(chain) =>
                        LET super == SuperCall(chain[i], history[i].args)
                        IN history[i + 1].args = Bind(chain[i + 1], e, super.args, super.kwargs).val
    /\ (last.op = "call" /\ last.res = "")
          => things[last.id].parameters[1].args
                = Bind(things[last.id].cls, last.id, last.args, last.kw).val

C20_Witness ==
    \E e \in 1..Len(things) :
        /\ things[e].cls = "ScrewM2"
        /\ things[e].done
        /\ Len(things[e].parameters) = 3
        /\ things[e].parameters[2] =
              [cls |-> "MetricScrew",
               args |-> << [k |-> "self", v |-> e], [k |-> "width", v |-> 2],
                           [k |-> "length", v |-> 10] >>]
        /\ things[e].parameters[3].cls = "Screw"

\* ------------------------------------------------------------------------
\* Properties of joints
\* ------------------------------------------------------------------------
\* The joint's transform from its reference mount to its moving mount
Forward(j) == JointTransform(joints[j], joints[j].reference_mount, joints[j].moving_mount)

\* The joint's transform from its moving mount to its reference mount
Backward(j) == JointTransform(joints[j], joints[j].moving_mount, joints[j].reference_mount)

\* (a, b) is the joint's (reference, moving) or (moving, reference) pair
PairOfJoint(j, a, b) ==
    \/ a = joints[j].reference_mount /\ b = joints[j].moving_mount
    \/ a = joints[j].moving_mount /\ b = joints[j].reference_mount

\* C4: a rejected set leaves the Revolute joint's parameter untouched: after any
\* sequence of set calls the joint's transform is the rotation about Z by the
\* argument of the last set that returned, whatever sets failed since.
C4_RejectedSetKeepsTransform ==
    \A j \in 1..Len(joints) :
        (joints[j].kind = "Revolute" /\ joints[j].last_ok # <<>>) =>
            /\ Forward(j) = Returned(Location(<<0, 0, 0>>, <<0, 0, joints[j].last_ok[1]>>))
            /\ joints[j].param_kwargs = joints[j].last_ok

\* C4 witness: set(90) returned on a joint with limits (0, 90), a later set(180)
\* or set(-90) was rejected
C4_Witness ==
    /\ last.op = "set" /\ last.res = "AssertionError"
    /\ joints[last.id].limit_angle = <<0, 90>>
    /\ joints[last.id].param_kwargs = <<90>>

\* C5: set(alpha) on a Revolute joint with limits (lo, hi) returns if and only
\* if lo <= alpha <= hi, and always returns on a joint without limits; when it
\* returns, alpha is the joint's parameter.
C5_SetSucceedsIffWithinLimits ==
    (last.op = "set" /\ last.a = 1 /\ joints[last.id].kind = "Revolute") =>
        LET lim == joints[last.id].limit_angle
        IN /\ last.res = "" <=> (lim = <<>> \/ (lim[1] <= last.b /\ last.b <= lim[2]))
           /\ last.res = "" => joints[last.id].param_kwargs = <<last.b>>
           /\ last.res # "" => last.res = "AssertionError"

\* C5 witness: set(90) returned on a joint whose upper limit is 90
C5_Witness ==
    /\ last.op = "set" /\ last.res = "" /\ last.b = 90
    /\ joints[last.id].limit_angle = <<0, 90>>

\* C6: transform of any joint, Rigid or Revolute, raises ValueError for a pair
\* of mounts that is neither (reference, moving) nor (moving, reference).
C6_ForeignPairRaisesValueError ==
    (last.op = "transform" /\ ~PairOfJoint(last.id, last.a, last.b)) =>
        last.res = "ValueError"

\* C7: for every joint in every parameter state, the transform from the
\* reference mount to the moving mount and the one back are inverses: both
\* compositions are the identity.
C7_TransformsAreInverse ==
    \A j \in 1..Len(joints) :
        /\ Forward(j).exc = "" /\ Backward(j).exc = ""
        /\ Compose(Forward(j).val, Backward(j).val) = Identity
        /\ Compose(Backward(j).val, Forward(j).val) = Identity
        /\ Forward(j).val = Inverse(Backward(j).val)

\* C7 witness: transform was called on a Revolute joint that set(90) turned
C7_Witness ==
    /\ last.op = "transform" /\ last.res = ""
    /\ joints[last.id].kind = "Revolute"
    /\ joints[last.id].param_kwargs = <<90>>
    /\ last.a = joints[last.id].moving_mount

\* The sanity condition of a joint: two owned mounts of two owners
TwoOwners(j) ==
    /\ mounts[joints[j].reference_mount].owner # 0
    /\ mounts[joints[j].moving_mount].owner # 0
    /\ mounts[joints[j].reference_mount].owner # mounts[joints[j].moving_mount].owner

\* C9: every joint links mounts of two different owners, and a joint
\* construction that fails the sanity check (one owner, or a mount without
\* owner) leaves the mounts' outbound slots and inbound lists as they were.
C9_JointsLinkTwoOwners ==
    /\ [](\A j \in 1..Len(joints) : TwoOwners(j))
    /\ [](last.op = "NewJoint" =>
            (last.id = 0 <=> ( \/ mounts[last.a].owner = 0
                               \/ mounts[last.b].owner = 0
                               \/ mounts[last.a].owner = mounts[last.b].owner)))
    /\ [][(last'.op = "NewJoint" /\ last'.id = 0) => (mounts' = mounts /\ joints' = joints)]_vars

\* C9 witness: with a joint in place, a construction on two mounts of one owner
\* was rejected
C9_Witness ==
    /\ last.op = "NewJoint" /\ last.res = "AssertionError" /\ last.id = 0
    /\ last.a # last.b
    /\ mounts[last.a].owner = mounts[last.b].owner
    /\ Len(joints) >= 1

\* C10: the outbound slot of the reference mount of every constructed joint
\* points to that joint, and so does the outbound slot of the moving mount of
\* every constructed peer joint.
C10_OutboundSlotsPointToJoint ==
    \A j \in 1..Len(joints) :
        joints[j].constructed =>
            /\ mounts[joints[j].reference_mount].joint_outbound = j
            /\ joints[j].peers => mounts[joints[j].moving_mount].joint_outbound = j

\* ------------------------------------------------------------------------
\* Properties of walks
\* ------------------------------------------------------------------------
\* The factors the first n resolvers of a chain stand for, in the order walked:
\* per joint the mount's location, the joint's transform, the mating
\* rotation and the inverse of the next mount's location
RECURSIVE ChainFactors(_, _)
ChainFactors(chain, n) ==
    IF n = 0 THEN <<>>
    ELSE ChainFactors(chain, n - 1) \o
         << mounts[chain[n].orig_mount].location,
            JointTransform(joints[chain[n].joint], chain[n].orig_mount, chain[n].next_mount).val,
            Location(<<0, 0, 0>>, <<180, 0, 90>>),
            Inverse(mounts[chain[n].next_mount].location) >>

\* The product of a sequence of transforms, multiplied from left to right
RECURSIVE Product(_)
Product(fs) ==
    IF Len(fs) = 0 THEN Identity
    ELSE Compose(Product(SubSeq(fs, 1, Len(fs) - 1)), fs[Len(fs)])

\* C8: in a chain of resolvers walked through N joints, every resolver's
\* cumulative transform is the ordered product of the factors of the joints
\* walked so far, each resolver starts at a mount of the Thing the previous
\* one wraps, and it wraps the owner of the mount it reached.
C8_ChainTransformIsOrderedProduct ==
    (tr # <<>> /\ \A i \in 1..Len(tr) : tr[i].joint # 0) =>
        \A n \in 1..Len(tr) :
            /\ tr[n].transform = Product(ChainFactors(tr, n))
            /\ tr[n].next_mount # tr[n].orig_mount
            /\ PairOfJoint(tr[n].joint, tr[n].orig_mount, tr[n].next_mount)
            /\ tr[n].wrapped = mounts[tr[n].next_mount].owner
            /\ n > 1 => mounts[tr[n].orig_mount].owner = tr[n - 1].wrapped

\* C8 witness: a chain through two joints, the first a Revolute joint turned to
\* 90, whose factors do not commute
C8_Witness ==
    /\ Len(tr) = 2
    /\ tr[1].joint # 0 /\ tr[2].joint # 0
    /\ joints[tr[1].joint].param_kwargs = <<90>>
    /\ LET second == Compose(Inverse(tr[1].transform), tr[2].transform)
       IN Compose(second, tr[1].transform) # tr[2].transform

\* ------------------------------------------------------------------------
\* Properties of resolvers
\* ------------------------------------------------------------------------
\* The last operation built a resolver from mount last.a with selector last.args
BuiltResolver == last.op = "resolver" /\ last.a \in 1..Len(mounts)

\* The selector finds no joint: no outbound joint, or an index out of the range
\* of the inbound list
NoJointFound(m, which) ==
    IF which = <<>> THEN m.joint_outbound = 0
    ELSE which[1] >= Len(m.joints_inbound) \/ which[1] < -Len(m.joints_inbound)

\* C21: a resolver built with selector None goes through the outbound joint of
\* the mount, with selector i through its i-th inbound joint; when there is no
\* such joint the construction returns a resolver with the identity as its
\* transform and no wrapped Thing, and reading its wrapped Thing, directly or
\* by a forwarded attribute, raises
C21_TerminalResolver ==
    /\ [](BuiltResolver =>
            LET m == mounts[last.a]
            IN /\ (last.res = "" /\ last.args = <<>> /\ m.joint_outbound # 0)
                     => tr[1].joint = m.joint_outbound
               /\ (last.res = "" /\ last.args # <<>> /\ last.args[1] >= 0
                      /\ last.args[1] < Len(m.joints_inbound))
                     => tr[1].joint = m.joints_inbound[last.args[1] + 1]
               /\ NoJointFound(m, last.args)
                     => /\ last.res = ""
                        /\ Len(tr) = 1
                        /\ tr[1].transform = Identity
                        /\ tr[1].wrapped = 0
                        /\ tr[1].joint = 0)
    /\ [][(tr # <<>> /\ tr[Len(tr)].wrapped = 0 /\ last'.op \in {"wrapped", "forward"})
            => (last'.res = "AssertionError" /\ tr' = tr)]_vars

\* C21 witness: index 1 of an inbound list of one joint finds nothing, and the
\* wrapped Thing of the resolver was asked for
C21_Witness ==
    /\ last.op = "wrapped"
    /\ last.res = "AssertionError"
    /\ Len(tr) = 1
    /\ Len(mounts[tr[1].orig_mount].joints_inbound) = 1
    /\ mounts[tr[1].orig_mount].joint_outbound # 0
    /\ tr[1].joint = 0

\* ------------------------------------------------------------------------
\* Properties of enumerate_assembly
\* ------------------------------------------------------------------------
\* The call that the step ends: resolver.enumerate_assembly() with the default
\* flags, run to its end without an exception
EnumeratedByDefault ==
    /\ last'.op = "enumerate"
    /\ last'.kw = <<TRUE, FALSE, FALSE>>
    /\ last'.res = ""

\* The Things attached through the outbound joints of the mounts of Thing e
ChildrenOf(e) ==
    {mounts[GetOtherMount(joints[mounts[m].joint_outbound], m).val].owner :
        m \in {i \in 1..Len(mounts) : mounts[i].owner = e /\ mounts[i].joint_outbound # 0}}

\* The Things below Thing e, at every depth
RECURSIVE BelowWithin(_, _)
BelowWithin(es, n) ==
    IF n = 0 THEN es
    ELSE BelowWithin(es \cup UNION {ChildrenOf(x) : x \in es}, n - 1)

Below(e) == BelowWithin(ChildrenOf(e), Len(things))

\* The items of the __dict__ of Thing e that are mounts with an outbound joint
OutboundItems(e) ==
    LET Test(item) == item.v.t = "MountPoint" /\ mounts[item.v.id].joint_outbound # 0
    IN SelectSeq(things[e].dict, Test)

\* C22 as stated: enumerate_assembly on a resolver yields a pair for every
\* Thing reachable through outbound joints below the wrapped Thing, at every
\* depth.
C22_EnumerateReachesEveryDepth ==
    [][EnumeratedByDefault =>
          \A x \in Below(tr[Len(tr)].wrapped) :
              \E n \in 1..Len(last'.args) : last'.args[n].v.wrapped = x]_vars

\* C22 amended: enumerate_assembly() on a resolver, when it runs to its end,
\* yields exactly one pair for each mount attribute of the wrapped Thing that
\* has an outbound joint, in the order of the attributes: the direct children
\* and nothing deeper.  The pair is labelled with the attribute's name, its
\* resolver wraps the Thing at the other end of the joint, has this resolver's
\* transform composed with the child's own as its transform, and this
\* resolver as its previous.
C22_EnumerateYieldsDirectChildren ==
    [][EnumeratedByDefault =>
          LET self == tr[Len(tr)]
              items == OutboundItems(self.wrapped)
          IN /\ Len(last'.args) = Len(items)
             /\ \A n \in 1..Len(items) :
                   LET own == NewResolver(mounts, joints, items[n].v.id, <<>>).val
                       v == last'.args[n].v
                   IN /\ last'.args[n].label = <<items[n].k>>
                      /\ v.wrapped = own.wrapped
                      /\ v.wrapped \in ChildrenOf(self.wrapped)
                      /\ v.transform = Compose(self.transform, own.transform)
                      /\ v.previous = <<self>>]_vars

\* An enumeration that yielded a child which has a child of its own
C22_Witness ==
    /\ last.op = "enumerate"
    /\ last.kw = <<TRUE, FALSE, FALSE>>
    /\ last.res = ""
    /\ \E n \in 1..Len(last.args) : ChildrenOf(last.args[n].v.wrapped) # {}
    /\ tr[Len(tr)].transform # Identity

\* ------------------------------------------------------------------------
\* Properties of reading through resolvers
\* ------------------------------------------------------------------------
\* The cumulative transform of the resolver that resolver self hands out for
\* the attribute name of the Thing it wraps, with the stored state ths, ms, js
ReadTransform(ths, ms, js, self, name) ==
    LET value == DictGet(ths[self.wrapped].dict, name)
    IN IF value.t = "ReferenceTransformResolver"
       THEN Compose(self.transform, value.transform)
       ELSE Compose(self.transform, NewResolver(ms, js, value.id, <<>>).val.transform)

\* The attributes of Thing e that are handed out as resolvers
ResolverNames(e) ==
    {things[e].dict[i].k : i \in {n \in 1..Len(things[e].dict) :
        things[e].dict[n].v.t \in {"MountPoint", "ReferenceTransformResolver"}}}

\* C27: reading through a resolver has no side effect on stored state.  After
\* a forwarded attribute access or an enumeration through a resolver, every
\* attribute of the wrapped Thing read again through the same resolver has
\* the cumulative transform it had before, stored reference resolvers
\* included.
C27_ReadingTwiceYieldsSameTransform ==
    [][(last'.op \in {"forward", "enumerate"} /\ tr # <<>> /\ tr[Len(tr)].wrapped # 0) =>
          \A name \in ResolverNames(tr[Len(tr)].wrapped) :
              ReadTransform(things', mounts', joints', tr[Len(tr)], name)
                  = ReadTransform(things, mounts, joints, tr[Len(tr)], name)]_vars

\* ------------------------------------------------------------------------
\* Properties of resolvers built after set
\* ------------------------------------------------------------------------
\* The resolvers that the step builds: the one a read appends to the chain or
\* starts a chain with, and the ones an enumeration yields
BuiltByStep ==
    IF last'.op \in {"enumerate", "enumerate_thing"}
    THEN {last'.args[n].v : n \in 1..Len(last'.args)}
    ELSE IF last'.op \in {"getattr", "forward"} /\ last'.res = "" /\ tr' # <<>>
         THEN {tr'[Len(tr')]}
         ELSE {}

\* The transform of joint jt from mount_from with the parameter p (<<>> for a
\* joint without parameters)
TransformWith(jt, p, mount_from) ==
    IF jt.kind = "Rigid" THEN Identity
    ELSE IF mount_from = jt.reference_mount
         THEN Location(<<0, 0, 0>>, <<0, 0, p[1]>>)
         ELSE Inverse(Location(<<0, 0, 0>>, <<0, 0, p[1]>>))

\* C23: after a set(p) that returned, every resolver built afterwards through
\* that joint, by reading the mount attribute, by forwarded access or by
\* enumerate_assembly, has the joint's transform at p: at the arguments of the
\* last set that returned, not of one that raised and not the default.
C23_ResolversUseLastSet ==
    [][\A v \in BuiltByStep :
          v.joint # 0 =>
              v.joint_transform
                  = TransformWith(joints[v.joint], joints[v.joint].last_ok, v.orig_mount)]_vars

\* An enumeration yielded a resolver through a joint with limits that was set
\* to 90 after its construction
C23_Witness ==
    /\ last.op = "enumerate"
    /\ \E n \in 1..Len(last.args) :
          /\ last.args[n].v.joint # 0
          /\ joints[last.args[n].v.joint].last_ok = <<90>>
          /\ joints[last.args[n].v.joint].limit_angle # <<>>
          /\ last.args[n].v.orig_mount = joints[last.args[n].v.joint].moving_mount

\* ------------------------------------------------------------------------
\* Properties of the assembly graph
\* ------------------------------------------------------------------------
\* C24: the directed assembly graph, with an edge from the owner of a mount to
\* the Thing reached through that mount's outbound joint, is acyclic after
\* any sequence of joint constructions, peer or not: no Thing is below itself.
C24_AssemblyGraphIsAcyclic == \A e \in 1..Len(things) : e \notin Below(e)

\* ------------------------------------------------------------------------
\* Properties of failed constructors
\* ------------------------------------------------------------------------
\* Thing e is a failed instance: its constructor is neither finished nor running
Failed(e) == ~things[e].done /\ \A i \in 1..Len(stack) : stack[i].self # e

\* The joints that mount m refers to
JointsAt(m) ==
    {mounts[m].joints_inbound[i] : i \in 1..Len(mounts[m].joints_inbound)}
        \cup (IF mounts[m].joint_outbound = 0 THEN {} ELSE {mounts[m].joint_outbound})

\* C25: there is no partially built Thing.  When a constructor has raised,
\* the failed instance is not in the memoization cache, not in
\* list_of_all_existing_things, and no mount of another Thing holds a joint
\* whose other mount belongs to it.
C25_NoPartiallyBuiltThing ==
    \A e \in 1..Len(things) :
        Failed(e) =>
            /\ \A signature \in DOMAIN cache : cache[signature] # e
            /\ \A i \in 1..Len(registry) : registry[i] # e
            /\ \A m \in 1..Len(mounts) :
                  mounts[m].owner # e =>
                      \A j \in JointsAt(m) :
                          mounts[GetOtherMount(joints[j], m).val].owner # e

\* ------------------------------------------------------------------------
\* Properties of the inbound lists
\* ------------------------------------------------------------------------
\* The non-peer joints whose moving mount is m, in the order of construction
NonPeerJointsOnto(m) ==
    SelectSeq([j \in 1..Len(joints) |-> j],
              LAMBDA j : ~joints[j].peers /\ joints[j].moving_mount = m)

IsPrefix(s, t) == Len(s) <= Len(t) /\ SubSeq(t, 1, Len(s)) = s

\* C26: the inbound list of every mount M is exactly the sequence, in the
\* order of construction and without duplicates, of the non-peer joints whose
\* moving mount is M; a peer joint is in no inbound list; and no step removes
\* or reorders an entry: the list only grows at its end.
C26_InboundListIsConstructionOrder ==
    /\ [](\A m \in 1..Len(mounts) : mounts[m].joints_inbound = NonPeerJointsOnto(m))
    /\ [][\A m \in 1..Len(mounts) :
             IsPrefix(mounts[m].joints_inbound, mounts'[m].joints_inbound)]_vars

\* A mount onto which a peer joint was built and then a joint that is not a
\* peer joint: only the second is in its inbound list
C26_Witness ==
    \E m \in 1..Len(mounts) :
        /\ Len(joints) = 2
        /\ joints[1].peers /\ joints[1].moving_mount = m
        /\ ~joints[2].peers /\ joints[2].moving_mount = m
        /\ mounts[m].joints_inbound = <<2>>

\* ------------------------------------------------------------------------
\* Properties of the shared memoization cache
\* ------------------------------------------------------------------------
\* C28: the shared cache never answers a call to one memoized operation with
\* a value that another one computed: what volume_mm3 returns was computed by
\* volume_mm3, what matrix_of_inertia returns by matrix_of_inertia, and both
\* for the Thing they were called on.
C28_CacheKeepsOperationsApart ==
    [][(last'.op \in {"volume_mm3", "matrix_of_inertia"} /\ last'.res = "") =>
          /\ last'.args[1].by = last'.op
          /\ last'.args[1].self = last'.id]_vars

\* ------------------------------------------------------------------------
\* Properties of the joints the mounts refer to
\* ------------------------------------------------------------------------
\* C29: every joint that the outbound slot or the inbound list of a mount
\* refers to has completed its default parametrization: its constructor ran
\* set_default() to the end, and a Revolute joint, with whatever limits it
\* declares, has its parameter alpha.
C29_RegisteredJointsAreParametrized ==
    \A m \in 1..Len(mounts) :
        \A j \in JointsAt(m) :
            /\ joints[j].constructed
            /\ joints[j].kind = "Revolute" => joints[j].param_kwargs # <<>>

\* ------------------------------------------------------------------------
\* Properties of the exporters' walk
\* ------------------------------------------------------------------------
\* C30: the recursive walk of the exporters (visit a Thing, then the wrapped
\* Thing of every pair of its enumerate_assembly(), with no visited set)
\* terminates for every assembly that can be constructed, peer joints
\* included: no walk runs into the recursion limit.
C30_WalkTerminates == ~(last.op = "walked" /\ last.res = "RecursionError")

====
